---- MODULE Spec2Model ----
(***************************************************************************)
(* Model of the optimization-failure debugger: the diagnostic classifier   *)
(* (lib/DiagnosticEngine.cpp), its template interpolation, and the         *)
(* structural IR differ (IRDiffEngine).  Strings are TLA+ strings; std::   *)
(* string positions are 0-based as in the source.                          *)
(***************************************************************************)
EXTENDS Integers, Sequences, FiniteSets, TLC

VARIABLES
  Remarks,      \* analyze: the input remark list
  Diff,         \* analyze: the input ModuleDiff
  Results,      \* analyze: the returned DiagnosticResult list
  analyzeDone,  \* analyze has returned
  Template,     \* interpolateArgs: the template string
  R,            \* interpolateArgs: the remark (FunctionName, Args)
  Result,       \* interpolateArgs: the returned string
  interpDone,   \* interpolateArgs has returned
  Before,       \* diff: the before module
  After,        \* diff: the after module
  MD,           \* diff: the returned ModuleDiff
  diffDone,     \* diff has returned
  Records,      \* parseRemarksYAML: the logical records the file persists
  FileContent,  \* parseRemarksYAML: the content of the record file
  Parsed,       \* parseRemarksYAML: the returned remark list
  parseDone,    \* parseRemarksYAML has returned
  Emits,        \* collector: the diagnostics each thread emits, in order
  pc,           \* collector: where each thread is in handleDiagnostics
  next,         \* collector: how many diagnostics each thread has taken
  Local,        \* collector: the Remark R of each thread's current call
  EndPos,       \* collector: the end of the vector each push_back has read
  CollectedRemarks, \* collector: the remark vector
  Mutex,        \* collector: the thread that holds the mutex, 0 if none
  Returned,     \* collector: the values each thread's calls have returned
  Flow,         \* session: the entry point that runs
  Fate,         \* session: which of the flow's steps succeed
  spc,          \* session: the position of the flow
  CtxState,     \* session: the state of each LLVMContext
  ModState,     \* session: the state of the before and the after module
  ModCtx,       \* session: the context each module lives in
  Locals,       \* session: what the flow's locals own, in declaration order
  SessionContexts, \* session: the contexts AnalysisSession::Contexts owns
  SessionModules,  \* session: the modules the session's pointers own
  Dropped,      \* session: how many members of a dropped session are gone
  Config,       \* session: the AnalysisConfig of the run
  Calls,        \* session: the operations the flow has invoked, in order
  Session,      \* session: the data fields of the AnalysisSession
  Passes,       \* session: the passes run on the after module
  Error,        \* session: the error the flow returns, "" if none
  SeqA,         \* alignment: the first string sequence
  SeqB,         \* alignment: the second string sequence
  DPTable,      \* alignment: the vector DP
  PosI,         \* alignment: I of the reconstruction loop
  PosJ,         \* alignment: J of the reconstruction loop
  Aligned,      \* alignment: the vector Alignment of index pairs
  apc,          \* alignment: the position of alignSequences
  ScanPos,      \* record scan: Pos of the record loop
  CurRecord,    \* record scan: the slice Record of the current record
  ArgsSearch,   \* record scan: SearchStart of the Args line loop
  ScanMsg,      \* record scan: FullMsg of the Args line loop
  Scanned,      \* record scan: the remark vector built so far
  ypc           \* record scan: the loop parseRemarksYAML is in

classifierVars == <<Remarks, Diff, Results, analyzeDone>>
interpVars == <<Template, R, Result, interpDone>>
differVars == <<Before, After, MD, diffDone>>
parserVars == <<Records, FileContent, Parsed, parseDone>>
collectorVars ==
  <<Emits, pc, next, Local, EndPos, CollectedRemarks, Mutex, Returned>>
sessionVars ==
  <<Flow, Fate, spc, CtxState, ModState, ModCtx, Locals, SessionContexts,
    SessionModules, Dropped, Config, Calls, Session, Passes, Error>>
alignVars == <<SeqA, SeqB, DPTable, PosI, PosJ, Aligned, apc>>
scanVars == <<ScanPos, CurRecord, ArgsSearch, ScanMsg, Scanned, ypc>>
vars ==
  <<classifierVars, interpVars, differVars, parserVars, collectorVars,
    sessionVars, alignVars, scanVars>>

(***************************************************************************)
(* Strings                                                                 *)
(***************************************************************************)

\* std::string::npos
NPOS == -1

RECURSIVE Concat(_)
\* concatenation of a sequence of strings
Concat(Pieces) ==
  IF Pieces = <<>> THEN "" ELSE Head(Pieces) \o Concat(Tail(Pieces))

\* std::string::find(Needle, From): the first position >= From at which
\* Needle occurs, or npos
find(S, Needle, From) ==
  LET Hits == {Pos \in From..(Len(S) - Len(Needle)) :
                 SubSeq(S, Pos + 1, Pos + Len(Needle)) = Needle}
  IN IF Hits = {} THEN NPOS
     ELSE CHOOSE Pos \in Hits : \A Q \in Hits : Pos <= Q

\* std::string::replace(Pos, Count, With)
replace(S, Pos, Count, With) ==
  SubSeq(S, 1, Pos) \o With \o SubSeq(S, Pos + Count + 1, Len(S))

UpperChars == "ABCDEFGHIJKLMNOPQRSTUVWXYZ"
LowerChars == "abcdefghijklmnopqrstuvwxyz"
UpperSet == {SubSeq(UpperChars, I, I) : I \in 1..26}
LowerOf ==
  [Ch \in UpperSet |->
     LET I == CHOOSE I \in 1..26 : SubSeq(UpperChars, I, I) = Ch
     IN SubSeq(LowerChars, I, I)]

\* llvm::toLower: ASCII lower-casing of one character
toLower(Ch) == IF Ch \in UpperSet THEN LowerOf[Ch] ELSE Ch

RECURSIVE lower(_)
\* StringRef::lower: every character through toLower (the string is split
\* in halves to keep the recursion shallow)
lower(S) ==
  IF Len(S) = 0 THEN ""
  ELSE IF Len(S) = 1 THEN toLower(S)
  ELSE lower(SubSeq(S, 1, Len(S) \div 2))
         \o lower(SubSeq(S, (Len(S) \div 2) + 1, Len(S)))

\* StringRef::find_insensitive: the first position at which Pattern occurs
\* in Text when both are compared through toLower
find_insensitive(Text, Pattern) == find(lower(Text), lower(Pattern), 0)

\* StringRef::contains_insensitive
contains_insensitive(Text, Pattern) ==
  find_insensitive(Text, Pattern) # NPOS

\* matchesPattern (Support)
matchesPattern(Text, Pattern) ==
  IF Pattern = "" THEN TRUE ELSE contains_insensitive(Text, Pattern)

(***************************************************************************)
(* Classifier: severity levels, remark kinds, rule database                *)
(***************************************************************************)

\* enum class SeverityLevel
Critical == 0
High == 1
Medium == 2
Low == 3
Info == 4

\* enum class RemarkKind
Applied == "Applied"
Missed == "Missed"
Analysis == "Analysis"
AnalysisAliasing == "AnalysisAliasing"
AnalysisFPCommute == "AnalysisFPCommute"
RemarkKinds == {Applied, Missed, Analysis, AnalysisAliasing, AnalysisFPCommute}

\* The rule database.  EstimatedSpeedup is held in hundredths (4.0 -> 400);
\* NumSuggestions is the size of the Suggestions vector and FirstSuggestion
\* the Description of its first element.

registerInliningPatterns ==
  <<
  [ PassNameSubstr   |-> "inline",
    RemarkNameSubstr |-> "NotInlined",
    MessageSubstr    |-> "too costly",
    ShortReason      |-> "Inlining rejected: callee too large",
    RootCause        |-> "The callee function body is too large for the inliner to jus" \o
                        "tify duplicating at this call site.",
    FirstSuggestion  |-> "Mark the function __attribute__((always_inline)) to force in" \o
                        "lining regardless of cost",
    NumSuggestions   |-> 4,
    Severity         |-> High,
    EstimatedSpeedup |-> 130 ],
  [ PassNameSubstr   |-> "inline",
    RemarkNameSubstr |-> "NotInlined",
    MessageSubstr    |-> "recursive",
    ShortReason      |-> "Inlining rejected: recursive function",
    RootCause        |-> "The function is directly or indirectly recursive.",
    FirstSuggestion  |-> "Refactor to an iterative implementation using an explicit st" \o
                        "ack, which can then be inlined normally",
    NumSuggestions   |-> 3,
    Severity         |-> Medium,
    EstimatedSpeedup |-> 0 ],
  [ PassNameSubstr   |-> "inline",
    RemarkNameSubstr |-> "NotInlined",
    MessageSubstr    |-> "noinline",
    ShortReason      |-> "Inlining rejected: noinline attribute present",
    RootCause        |-> "The 'noinline' attribute on the function or call site is pre" \o
                        "venting the inliner from proceeding.",
    FirstSuggestion  |-> "Remove the __attribute__((noinline)) or [[gnu::noinline]] an" \o
                        "notation from the function declaration if it was added by mi" \o
                        "stake or is no longer needed",
    NumSuggestions   |-> 3,
    Severity         |-> High,
    EstimatedSpeedup |-> 125 ],
  [ PassNameSubstr   |-> "inline",
    RemarkNameSubstr |-> "NotInlined",
    MessageSubstr    |-> "indirect call",
    ShortReason      |-> "Inlining rejected: indirect call site",
    RootCause        |-> "The call target is not known at compile time (function point" \o
                        "er, vtable dispatch, or unresolved COMDAT).",
    FirstSuggestion  |-> "Use final/override on virtual methods to allow devirtualizat" \o
                        "ion, or seal the class with [[clang::final]]",
    NumSuggestions   |-> 4,
    Severity         |-> High,
    EstimatedSpeedup |-> 150 ],
  [ PassNameSubstr   |-> "inline",
    RemarkNameSubstr |-> "NotInlined",
    MessageSubstr    |-> "unavailable definition",
    ShortReason      |-> "Inlining rejected: callee definition not available",
    RootCause        |-> "The callee is declared but not defined in this translation u" \o
                        "nit, and Link-Time Optimization (LTO) is not enabled.",
    FirstSuggestion  |-> "Enable Link-Time Optimization with -flto (thin LTO) or -flto" \o
                        "=full (full LTO) to make cross-module inlining possible",
    NumSuggestions   |-> 3,
    Severity         |-> Medium,
    EstimatedSpeedup |-> 140 ]
  >>

registerLoopVectorizationPatterns ==
  <<
  [ PassNameSubstr   |-> "loop-vectorize",
    RemarkNameSubstr |-> "MissedDetails",
    MessageSubstr    |-> "loop not vectorized",
    ShortReason      |-> "Loop vectorization failed",
    RootCause        |-> "One or more preconditions for loop vectorization are not sat" \o
                        "isfied.",
    FirstSuggestion  |-> "Add __restrict__ qualifiers to pointer parameters to elimina" \o
                        "te aliasing uncertainty",
    NumSuggestions   |-> 5,
    Severity         |-> High,
    EstimatedSpeedup |-> 400 ],
  [ PassNameSubstr   |-> "loop-vectorize",
    RemarkNameSubstr |-> "",
    MessageSubstr    |-> "cannot identify array bounds",
    ShortReason      |-> "Loop vectorization blocked: unknown array bounds",
    RootCause        |-> "LLVM cannot statically or dynamically determine the iteratio" \o
                        "n count of the loop, blocking the vector preamble/remainder " \o
                        "generation.",
    FirstSuggestion  |-> "Use index-based loops with an explicit integer bound instead" \o
                        " of pointer arithmetic",
    NumSuggestions   |-> 3,
    Severity         |-> High,
    EstimatedSpeedup |-> 400 ],
  [ PassNameSubstr   |-> "loop-vectorize",
    RemarkNameSubstr |-> "",
    MessageSubstr    |-> "unsafe dependent memory operations",
    ShortReason      |-> "Loop vectorization blocked: memory dependency / aliasing",
    RootCause        |-> "A read-after-write, write-after-read, or write-after-write d" \o
                        "ependency between iterations was found or could not be ruled" \o
                        " out by alias analysis.",
    FirstSuggestion  |-> "If you know the arrays do not alias, add __restrict__ to all" \o
                        " pointer parameters",
    NumSuggestions   |-> 4,
    Severity         |-> Critical,
    EstimatedSpeedup |-> 400 ],
  [ PassNameSubstr   |-> "loop-vectorize",
    RemarkNameSubstr |-> "",
    MessageSubstr    |-> "value that could not be identified as reduction",
    ShortReason      |-> "Loop vectorization blocked: non-reducible accumulator",
    RootCause        |-> "The loop accumulator update cannot be expressed as a vectori" \o
                        "zable reduction operation.",
    FirstSuggestion  |-> "Ensure reductions use simple operators: +=, *=, &=, |=, ^= o" \o
                        "r std::min/std::max without conditionals inside",
    NumSuggestions   |-> 3,
    Severity         |-> Medium,
    EstimatedSpeedup |-> 300 ],
  [ PassNameSubstr   |-> "loop-vectorize",
    RemarkNameSubstr |-> "",
    MessageSubstr    |-> "call instruction cannot be vectorized",
    ShortReason      |-> "Loop vectorization blocked: non-vectorizable function call",
    RootCause        |-> "A function call in the loop body has no known SIMD vector va" \o
                        "riant.",
    FirstSuggestion  |-> "Replace library calls with equivalent intrinsics: use sqrtf(" \o
                        ") instead of custom sqrt, fabsf() for fabs, etc. which have " \o
                        "SIMD-vectorizable forms",
    NumSuggestions   |-> 4,
    Severity         |-> High,
    EstimatedSpeedup |-> 350 ]
  >>

registerSLPVectorizationPatterns ==
  <<
  [ PassNameSubstr   |-> "slp-vectorizer",
    RemarkNameSubstr |-> "NotVectorized",
    MessageSubstr    |-> "",
    ShortReason      |-> "SLP vectorization failed",
    RootCause        |-> "The scalar operations could not be packed into SIMD because " \o
                        "of dependencies, cost model rejection, or irregular access p" \o
                        "atterns.",
    FirstSuggestion  |-> "Ensure independent scalar computations operate on contiguous" \o
                        " memory (struct-of-arrays layout is more SLP-friendly than a" \o
                        "rray-of-structs)",
    NumSuggestions   |-> 3,
    Severity         |-> Medium,
    EstimatedSpeedup |-> 200 ]
  >>

registerSROAPatterns ==
  <<
  [ PassNameSubstr   |-> "sroa",
    RemarkNameSubstr |-> "CannotSROAElement",
    MessageSubstr    |-> "",
    ShortReason      |-> "SROA failed: aggregate cannot be decomposed",
    RootCause        |-> "The address of the alloca'd aggregate escapes the function o" \o
                        "r is used in a way that prevents SROA from replacing it with" \o
                        " scalars.",
    FirstSuggestion  |-> "Avoid taking the address of local structs and passing it to " \o
                        "external functions; pass fields individually instead",
    NumSuggestions   |-> 4,
    Severity         |-> High,
    EstimatedSpeedup |-> 150 ],
  [ PassNameSubstr   |-> "sroa",
    RemarkNameSubstr |-> "",
    MessageSubstr    |-> "address taken",
    ShortReason      |-> "SROA failed: address of local variable is taken",
    RootCause        |-> "The alloca's address escapes the current function via a poin" \o
                        "ter, preventing SROA and mem2reg from eliminating the stack " \o
                        "slot.",
    FirstSuggestion  |-> "Remove address-taking: if the address is only needed for a s" \o
                        "ingle call, restructure the call to take the value directly",
    NumSuggestions   |-> 3,
    Severity         |-> Medium,
    EstimatedSpeedup |-> 140 ]
  >>

registerLoopUnrollPatterns ==
  <<
  [ PassNameSubstr   |-> "loop-unroll",
    RemarkNameSubstr |-> "FullUnrollAssumed",
    MessageSubstr    |-> "unknown trip count",
    ShortReason      |-> "Loop unrolling skipped: trip count not statically known",
    RootCause        |-> "The loop's iteration count is a runtime variable with no sta" \o
                        "tically known value or upper bound.",
    FirstSuggestion  |-> "If the trip count is always a small constant, use a template" \o
                        " parameter or constexpr variable",
    NumSuggestions   |-> 3,
    Severity         |-> Low,
    EstimatedSpeedup |-> 115 ],
  [ PassNameSubstr   |-> "loop-unroll",
    RemarkNameSubstr |-> "",
    MessageSubstr    |-> "instruction count too high",
    ShortReason      |-> "Loop unrolling rejected: code size would be too large",
    RootCause        |-> "Unrolling the loop body would produce too many instructions," \o
                        " exceeding the unroll threshold.",
    FirstSuggestion  |-> "Request a smaller unroll factor with #pragma clang loop unro" \o
                        "ll_count(2)",
    NumSuggestions   |-> 3,
    Severity         |-> Low,
    EstimatedSpeedup |-> 110 ]
  >>

registerTailCallPatterns ==
  <<
  [ PassNameSubstr   |-> "tailcallelim",
    RemarkNameSubstr |-> "UnableToTransform",
    MessageSubstr    |-> "",
    ShortReason      |-> "Tail call elimination failed",
    RootCause        |-> "The call is not in proper tail position, or there are live v" \o
                        "alues on the stack needed after the call, or calling convent" \o
                        "ions differ.",
    FirstSuggestion  |-> "Ensure the recursive call is the very last operation: return" \o
                        " f(n-1) not return f(n-1) + 1",
    NumSuggestions   |-> 3,
    Severity         |-> Medium,
    EstimatedSpeedup |-> 130 ]
  >>

registerGVNPatterns ==
  <<
  [ PassNameSubstr   |-> "gvn",
    RemarkNameSubstr |-> "LoadElim",
    MessageSubstr    |-> "",
    ShortReason      |-> "GVN failed to eliminate redundant load",
    RootCause        |-> "An intervening store, aliased write, or unknown function cal" \o
                        "l prevents GVN from proving the load is redundant.",
    FirstSuggestion  |-> "Cache loaded values in local variables to make the redundanc" \o
                        "y syntactically obvious",
    NumSuggestions   |-> 3,
    Severity         |-> Medium,
    EstimatedSpeedup |-> 120 ]
  >>

registerMemCpyOptPatterns ==
  <<
  [ PassNameSubstr   |-> "memcpyopt",
    RemarkNameSubstr |-> "",
    MessageSubstr    |-> "",
    ShortReason      |-> "MemCpyOpt failed to optimize memory copy",
    RootCause        |-> "Aliasing, partial copies, or intervening modifications preve" \o
                        "nt the memory copy optimization.",
    FirstSuggestion  |-> "Use __restrict__ on pointers to enable aliasing proof",
    NumSuggestions   |-> 3,
    Severity         |-> Low,
    EstimatedSpeedup |-> 110 ]
  >>

registerLoopInterchangePatterns ==
  <<
  [ PassNameSubstr   |-> "loop-interchange",
    RemarkNameSubstr |-> "",
    MessageSubstr    |-> "",
    ShortReason      |-> "Loop interchange failed",
    RootCause        |-> "The loop nest is not perfectly nested, has disqualifying dep" \o
                        "endencies, or the interchange is not profitable according to" \o
                        " the cost model.",
    FirstSuggestion  |-> "Make the loop nest perfectly nested: remove all statements b" \o
                        "etween the outer and inner loop headers",
    NumSuggestions   |-> 3,
    Severity         |-> Medium,
    EstimatedSpeedup |-> 200 ]
  >>

registerGenericPatterns ==
  <<
  [ PassNameSubstr   |-> "",
    RemarkNameSubstr |-> "NeverInline",
    MessageSubstr    |-> "",
    ShortReason      |-> "Optimization blocked by attribute",
    RootCause        |-> "An explicit attribute (noinline, optnone, volatile, etc.) ov" \o
                        "errides the optimizer's decision.",
    FirstSuggestion  |-> "Review whether the attribute is still necessary; remove it i" \o
                        "f it was added for debugging or as a temporary workaround",
    NumSuggestions   |-> 1,
    Severity         |-> High,
    EstimatedSpeedup |-> 120 ],
  [ PassNameSubstr   |-> "",
    RemarkNameSubstr |-> "",
    MessageSubstr    |-> "optnone",
    ShortReason      |-> "Optimization skipped: optnone function",
    RootCause        |-> "The 'optnone' attribute on the function disables all optimiz" \o
                        "ations.",
    FirstSuggestion  |-> "Remove __attribute__((optnone)) from the function, or compil" \o
                        "e without -O0 for production builds",
    NumSuggestions   |-> 2,
    Severity         |-> Critical,
    EstimatedSpeedup |-> 200 ],
  [ PassNameSubstr   |-> "gvn",
    RemarkNameSubstr |-> "LoadClobbered",
    MessageSubstr    |-> "",
    ShortReason      |-> "Global Value Numbering failed: load clobbered by store",
    RootCause        |-> "A store instruction clobbers the memory location of a load, " \o
                        "preventing redundant load elimination.",
    FirstSuggestion  |-> "Use __restrict__ if you know the store does not affect the l" \o
                        "oad's pointer",
    NumSuggestions   |-> 2,
    Severity         |-> Medium,
    EstimatedSpeedup |-> 120 ],
  [ PassNameSubstr   |-> "loop-vectorize",
    RemarkNameSubstr |-> "",
    MessageSubstr    |-> "Cannot vectorize potentially faulting early exit loop",
    ShortReason      |-> "Loop Vectorization failed: Non-canonical early exit",
    RootCause        |-> "An 'early exit' branch inside the loop body blocks vectoriza" \o
                        "tion.",
    FirstSuggestion  |-> "Restructure the loop to avoid early exits; use a boolean fla" \o
                        "g or sentinel value and process it after the loop if possibl" \o
                        "e",
    NumSuggestions   |-> 3,
    Severity         |-> High,
    EstimatedSpeedup |-> 350 ],
  [ PassNameSubstr   |-> "inline",
    RemarkNameSubstr |-> "NoDefinition",
    MessageSubstr    |-> "",
    ShortReason      |-> "Inlining failed: No function definition available",
    RootCause        |-> "The function body is missing in the current module.",
    FirstSuggestion  |-> "Enable Link Time Optimization (LTO) with -flto",
    NumSuggestions   |-> 2,
    Severity         |-> Medium,
    EstimatedSpeedup |-> 130 ]
  >>

\* registerPatterns: the ten routines append in this order
Patterns ==
  registerInliningPatterns \o registerLoopVectorizationPatterns \o
  registerSLPVectorizationPatterns \o registerSROAPatterns \o
  registerLoopUnrollPatterns \o registerTailCallPatterns \o
  registerGVNPatterns \o registerMemCpyOptPatterns \o
  registerLoopInterchangePatterns \o registerGenericPatterns

(***************************************************************************)
(* Classifier: matching                                                    *)
(***************************************************************************)

\* a scan that keeps a pattern as soon as one of its selectors matches
PatternMatches_mut_anyField(Rm, P) ==
  \/ (P.PassNameSubstr # "" /\ matchesPattern(Rm.PassName, P.PassNameSubstr))
  \/ (P.RemarkNameSubstr # ""
        /\ matchesPattern(Rm.RemarkName, P.RemarkNameSubstr))
  \/ (P.MessageSubstr # "" /\ matchesPattern(Rm.Message, P.MessageSubstr))

\* the three `continue` tests of the scan loop: every non-empty selector
\* must match its field
PatternMatches(Rm, P) ==
  /\ (P.PassNameSubstr # "" => matchesPattern(Rm.PassName, P.PassNameSubstr))
  /\ (P.RemarkNameSubstr # ""
        => matchesPattern(Rm.RemarkName, P.RemarkNameSubstr))
  /\ (P.MessageSubstr # "" => matchesPattern(Rm.Message, P.MessageSubstr))

\* the Score accumulated for a pattern that passed the three tests
PatternScore(P) ==
  (IF P.PassNameSubstr # "" THEN 2 ELSE 0)
  + (IF P.RemarkNameSubstr # "" THEN 3 ELSE 0)
  + (IF P.MessageSubstr # "" THEN 4 ELSE 0)

\* a scan that lets a later pattern of equal score replace the best one
IsBetter_mut_ge(Score, BestScore) == Score >= BestScore

\* `if (Score > BestScore)`
IsBetter(Score, BestScore) == Score > BestScore

RECURSIVE findMatchingLoop(_, _, _, _)
\* the scan loop from pattern I on; Best is an index into Patterns, 0 for
\* nullptr
findMatchingLoop(Rm, I, Best, BestScore) ==
  IF I > Len(Patterns) THEN Best
  ELSE LET P == Patterns[I]
       IN IF ~PatternMatches(Rm, P)
          THEN findMatchingLoop(Rm, I + 1, Best, BestScore)
          ELSE IF IsBetter(PatternScore(P), BestScore)
               THEN findMatchingLoop(Rm, I + 1, I, PatternScore(P))
               ELSE findMatchingLoop(Rm, I + 1, Best, BestScore)

\* DiagnosticEngine::findMatchingPattern: index of the pattern, 0 for nullptr
findMatchingPattern(Rm) == findMatchingLoop(Rm, 1, 0, -1)

(***************************************************************************)
(* Classifier: template interpolation                                      *)
(***************************************************************************)

\* a placeholder built without its closing brace
Placeholder_mut_open(Key) == "{" \o Key

\* "{" + Arg.Key + "}"
Placeholder(Key) == "{" \o Key \o "}"

RECURSIVE replaceLoop(_, _, _, _)
\* the inner while loop: replace the placeholder at Pos, search again from
\* Pos + Value.size()
replaceLoop(Res, Ph, Value, Pos) ==
  IF Pos = NPOS THEN Res
  ELSE LET Res2 == replace(Res, Pos, Len(Ph), Value)
       IN replaceLoop(Res2, Ph, Value, find(Res2, Ph, Pos + Len(Value)))

RECURSIVE interpolateArgsLoop(_, _)
\* the loop over R.Args, in list order
interpolateArgsLoop(Res, Args) ==
  IF Args = <<>> THEN Res
  ELSE LET Ph == Placeholder(Head(Args).Key)
           Res2 == replaceLoop(Res, Ph, Head(Args).Value, find(Res, Ph, 0))
       IN interpolateArgsLoop(Res2, Tail(Args))

\* DiagnosticEngine::interpolateArgs
interpolateArgs(Tmpl, Rm) ==
  LET Res == interpolateArgsLoop(Tmpl, Rm.Args)
  IN replaceLoop(Res, "{FunctionName}", Rm.FunctionName,
                 find(Res, "{FunctionName}", 0))

(***************************************************************************)
(* Classifier: building and ordering the diagnostics                       *)
(***************************************************************************)

\* DiagnosticEngine::buildFromPattern.  IRDiff is a sequence holding at most
\* one FunctionDiff (std::optional).
buildFromPattern(Rm, P) ==
  [ PassName         |-> Rm.PassName,
    FunctionName     |-> Rm.FunctionName,
    ShortReason      |-> P.ShortReason,
    RootCause        |-> interpolateArgs(P.RootCause, Rm),
    NumSuggestions   |-> P.NumSuggestions,
    FirstSuggestion  |-> P.FirstSuggestion,
    Severity         |-> P.Severity,
    EstimatedSpeedup |-> P.EstimatedSpeedup,
    IRDiff           |-> <<>> ]

\* a fallback that is filed under Low
buildFallback_mut_low(Rm) ==
  [ PassName         |-> Rm.PassName,
    FunctionName     |-> Rm.FunctionName,
    ShortReason      |-> "Optimization missed: " \o Rm.RemarkName,
    RootCause        |-> "See raw message: " \o Rm.Message,
    NumSuggestions   |-> 0,
    FirstSuggestion  |-> "",
    Severity         |-> Low,
    EstimatedSpeedup |-> 0,
    IRDiff           |-> <<>> ]

\* DiagnosticEngine::buildFallback
buildFallback(Rm) ==
  [ PassName         |-> Rm.PassName,
    FunctionName     |-> Rm.FunctionName,
    ShortReason      |-> "Optimization missed: " \o Rm.RemarkName,
    RootCause        |-> "See raw message: " \o Rm.Message,
    NumSuggestions   |-> 0,
    FirstSuggestion  |-> "",
    Severity         |-> Medium,
    EstimatedSpeedup |-> 0,
    IRDiff           |-> <<>> ]

\* DiagnosticEngine::analyzeRemark
analyzeRemark(Rm) ==
  LET P == findMatchingPattern(Rm)
  IN IF P # 0 THEN buildFromPattern(Rm, Patterns[P]) ELSE buildFallback(Rm)

RECURSIVE buildDiffMap(_, _)
\* the DiffMap of analyze: later entries overwrite earlier ones of the same
\* name.  The map is a function from the names present to FunctionDiffs.
buildDiffMap(Functions, Map) ==
  IF Functions = <<>> THEN Map
  ELSE LET FD == Head(Functions)
           Map2 == [N \in (DOMAIN Map) \cup {FD.FunctionName} |->
                      IF N = FD.FunctionName THEN FD ELSE Map[N]]
       IN buildDiffMap(Tail(Functions), Map2)

\* a filter that keeps only Missed remarks
skipsRemark_mut_missed(Rm) == Rm.Kind # Missed

\* `if (R.Kind == RemarkKind::Applied) continue;`
skipsRemark(Rm) == Rm.Kind = Applied

RECURSIVE analyzeLoop(_, _, _)
\* the loop over Remarks: skip Applied, classify, attach the function's diff
analyzeLoop(Rms, DiffMap, Res) ==
  IF Rms = <<>> THEN Res
  ELSE LET Rm == Head(Rms)
       IN IF skipsRemark(Rm) THEN analyzeLoop(Tail(Rms), DiffMap, Res)
          ELSE LET DR == analyzeRemark(Rm)
                   DR2 == IF Rm.FunctionName \in DOMAIN DiffMap
                          THEN [DR EXCEPT !.IRDiff = <<DiffMap[Rm.FunctionName]>>]
                          ELSE DR
               IN analyzeLoop(Tail(Rms), DiffMap, Append(Res, DR2))

\* a comparator that also orders equal severities
severityLess_mut_le(A, B) == A.Severity <= B.Severity

\* the comparator handed to std::stable_sort
severityLess(A, B) == A.Severity < B.Severity

RECURSIVE insertSorted(_, _)
\* one insertion of std::stable_sort: X moves left past every element it
\* compares less than
insertSorted(Sorted, X) ==
  IF Sorted = <<>> THEN <<X>>
  ELSE LET L == Sorted[Len(Sorted)]
       IN IF severityLess(X, L)
          THEN Append(insertSorted(SubSeq(Sorted, 1, Len(Sorted) - 1), X), L)
          ELSE Append(Sorted, X)

RECURSIVE stable_sort(_, _)
\* std::stable_sort as the insertion sort the library runs on short ranges
stable_sort(Sorted, Rest) ==
  IF Rest = <<>> THEN Sorted
  ELSE stable_sort(insertSorted(Sorted, Head(Rest)), Tail(Rest))

\* DiagnosticEngine::analyze
analyze(Rms, ModDiff) ==
  LET DiffMap == buildDiffMap(ModDiff.Functions, <<>>)
  IN stable_sort(<<>>, analyzeLoop(Rms, DiffMap, <<>>))

(***************************************************************************)
(* IR differ.  A module is the sequence of its functions in module order;  *)
(* a function is [Name, Type, CallingConv, Linkage, Visibility,            *)
(* Attributes, Blocks]; a declaration has no blocks; a block is            *)
(* [Name, Instrs] with Name = "" when the block has no name; an            *)
(* instruction is [Printed, OpcodeName].                                   *)
(***************************************************************************)

\* enum class DiffKind
Unchanged == "Unchanged"
Added == "Added"
Removed == "Removed"
Modified == "Modified"

Digits == "0123456789"

RECURSIVE to_string(_)
\* std::to_string of an unsigned value
to_string(N) ==
  IF N < 10 THEN SubSeq(Digits, N + 1, N + 1)
  ELSE to_string(N \div 10) \o SubSeq(Digits, (N % 10) + 1, (N % 10) + 1)

RECURSIVE find_first_not_of_space(_, _)
\* std::string::find_first_not_of(' ') from position From
find_first_not_of_space(S, From) ==
  IF From >= Len(S) THEN NPOS
  ELSE IF SubSeq(S, From + 1, From + 1) # " " THEN From
       ELSE find_first_not_of_space(S, From + 1)

\* IRDiffEngine::getInstructionText: the printed form without its leading
\* spaces
getInstructionText(I) ==
  LET Pos == find_first_not_of_space(I.Printed, 0)
  IN IF Pos # NPOS THEN SubSeq(I.Printed, Pos + 1, Len(I.Printed))
     ELSE I.Printed

\* IRDiffEngine::recordInstruction
recordInstruction(I, LineHint) ==
  [Text |-> getInstructionText(I), Line |-> LineHint,
   OpcodeName |-> I.OpcodeName]

\* a record that holds the text of some instruction
EmptyRecord_mut_filled(Uninit) ==
  [Text |-> "ret void", Line |-> Uninit, OpcodeName |-> "ret"]

\* a default-constructed InstructionRecord (the side an Added or Removed
\* InstructionDiff never assigns): the strings are empty, `unsigned Line`
\* has no initialiser and holds whatever value Uninit the build leaves there
EmptyRecord(Uninit) == [Text |-> "", Line |-> Uninit, OpcodeName |-> ""]

\* `BB.hasName() ? BB.getName().str() : "<bb." + std::to_string(Idx) + ">"`
blockNameAt(BB, Idx) ==
  IF BB.Name # "" THEN BB.Name ELSE "<bb." \o to_string(Idx) \o ">"

\* IRDiffEngine::getBlockName: Idx is the position of the block in its
\* parent function
getBlockName(BB, Idx) == blockNameAt(BB, Idx)

\* IRDiffEngine::getFunctionSignature
getFunctionSignature(F) == F.Name \o " : " \o F.Type

\* IRDiffEngine::attributesEqual
attributesEqual(A, B) ==
  IF A.CallingConv # B.CallingConv THEN FALSE
  ELSE IF A.Linkage # B.Linkage THEN FALSE
  ELSE IF A.Visibility # B.Visibility THEN FALSE
  ELSE A.Attributes = B.Attributes

\* Function::isDeclaration
isDeclaration(F) == F.Blocks = <<>>

RECURSIVE instrCount(_)
\* `for (BB : F) Count += BB.size();`
instrCount(Blocks) ==
  IF Blocks = <<>> THEN 0
  ELSE Len(Head(Blocks).Instrs) + instrCount(Tail(Blocks))

(***************************************************************************)
(* alignSequences                                                          *)
(***************************************************************************)

\* the flat DP vector is a sequence; cell (I, J) of the source is element
\* I * (N + 1) + J + 1
getDP(DP, N, I, J) == DP[I * (N + 1) + J + 1]

\* std::max
max(X, Y) == IF X < Y THEN Y ELSE X

\* a fill loop that takes the upper neighbour for unequal elements
cellValue_mut_upOnly(A, B, DP, I, J) ==
  IF A[I] = B[J] THEN getDP(DP, Len(B), I - 1, J - 1) + 1
  ELSE getDP(DP, Len(B), I - 1, J)

\* the value the fill loop stores into cell (I, J)
cellValue(A, B, DP, I, J) ==
  IF A[I] = B[J] THEN getDP(DP, Len(B), I - 1, J - 1) + 1
  ELSE max(getDP(DP, Len(B), I - 1, J), getDP(DP, Len(B), I, J - 1))

RECURSIVE fillDP(_, _, _, _, _)
\* the two nested fill loops, cell by cell in row order
fillDP(A, B, DP, I, J) ==
  IF I > Len(A) THEN DP
  ELSE IF J > Len(B) THEN fillDP(A, B, DP, I + 1, 1)
  ELSE fillDP(A, B,
              [DP EXCEPT ![I * (Len(B) + 1) + J + 1] = cellValue(A, B, DP, I, J)],
              I, J + 1)

\* a walk that goes up on equal scores
leftNotWorse_mut_strict(DP, N, I, J) ==
  getDP(DP, N, I, J - 1) > getDP(DP, N, I - 1, J)

\* `getDP(I, J - 1) >= getDP(I - 1, J)`: on equal scores the walk goes left
leftNotWorse(DP, N, I, J) == getDP(DP, N, I, J - 1) >= getDP(DP, N, I - 1, J)

RECURSIVE reconstruct(_, _, _, _, _, _)
\* the reconstruction loop; pairs are <<index in A, index in B>>, 0-based,
\* -1 for a gap
reconstruct(A, B, DP, I, J, Alignment) ==
  IF ~(I > 0 \/ J > 0) THEN Alignment
  ELSE IF I > 0 /\ J > 0 /\ A[I] = B[J]
       THEN reconstruct(A, B, DP, I - 1, J - 1,
                        Append(Alignment, <<I - 1, J - 1>>))
  ELSE IF J > 0 /\ (I = 0 \/ leftNotWorse(DP, Len(B), I, J))
       THEN reconstruct(A, B, DP, I, J - 1, Append(Alignment, <<-1, J - 1>>))
  ELSE reconstruct(A, B, DP, I - 1, J, Append(Alignment, <<I - 1, -1>>))

\* a vector left in the order it was built in
reverse_mut_identity(S) == S

\* std::reverse
reverse(S) == [K \in 1..Len(S) |-> S[Len(S) + 1 - K]]

\* IRDiffEngine::alignSequences
alignSequences(A, B) ==
  LET DP0 == [K \in 1..((Len(A) + 1) * (Len(B) + 1)) |-> 0]
      DP == fillDP(A, B, DP0, 1, 1)
  IN reverse(reconstruct(A, B, DP, Len(A), Len(B), <<>>))

(***************************************************************************)
(* diffInstructions, diffBlocks, diffFunctions, diff                       *)
(***************************************************************************)

\* the record vector of a block: recordInstruction(I, ++LineIdx)
blockRecords(BB) ==
  [K \in 1..Len(BB.Instrs) |-> recordInstruction(BB.Instrs[K], K)]

\* the InstructionDiff built for one aligned pair <<BI, AI>>
instructionDiffOf(Pair, BeforeRecs, AfterRecs, Uninit) ==
  IF Pair[1] >= 0 /\ Pair[2] >= 0
  THEN [Kind |-> Unchanged, Before |-> BeforeRecs[Pair[1] + 1],
        After |-> AfterRecs[Pair[2] + 1]]
  ELSE IF Pair[1] >= 0
  THEN [Kind |-> Removed, Before |-> BeforeRecs[Pair[1] + 1],
        After |-> EmptyRecord(Uninit)]
  ELSE [Kind |-> Added, Before |-> EmptyRecord(Uninit),
        After |-> AfterRecs[Pair[2] + 1]]

\* IRDiffEngine::diffInstructions
diffInstructions(BBefore, BAfter, Uninit) ==
  LET BeforeRecs == blockRecords(BBefore)
      AfterRecs == blockRecords(BAfter)
      BeforeTexts == [K \in 1..Len(BeforeRecs) |-> BeforeRecs[K].Text]
      AfterTexts == [K \in 1..Len(AfterRecs) |-> AfterRecs[K].Text]
      Alignment == alignSequences(BeforeTexts, AfterTexts)
  IN [K \in 1..Len(Alignment) |->
        instructionDiffOf(Alignment[K], BeforeRecs, AfterRecs, Uninit)]

\* a block diff whose before count is the number of its entries
diffBlocks_mut_countsEntries(BBefore, BAfter, Name, Uninit) ==
  LET Instructions == diffInstructions(BBefore, BAfter, Uninit)
      AnyChange == \E K \in 1..Len(Instructions) :
                     Instructions[K].Kind # Unchanged
  IN [Kind |-> IF AnyChange THEN Modified ELSE Unchanged,
      BlockName |-> Name,
      Instructions |-> Instructions,
      BeforeInstrCount |-> Len(Instructions),
      AfterInstrCount |-> Len(BAfter.Instrs)]

\* IRDiffEngine::diffBlocks
diffBlocks(BBefore, BAfter, Name, Uninit) ==
  LET Instructions == diffInstructions(BBefore, BAfter, Uninit)
      AnyChange == \E K \in 1..Len(Instructions) :
                     Instructions[K].Kind # Unchanged
  IN [Kind |-> IF AnyChange THEN Modified ELSE Unchanged,
      BlockName |-> Name,
      Instructions |-> Instructions,
      BeforeInstrCount |-> Len(BBefore.Instrs),
      AfterInstrCount |-> Len(BAfter.Instrs)]

\* the BlockDiff pushed for one pair <<BI, AI>> of the block alignment
blockDiffOf(Pair, FBefore, FAfter, BeforeNames, Uninit) ==
  IF Pair[1] >= 0 /\ Pair[2] >= 0
  THEN diffBlocks(FBefore.Blocks[Pair[1] + 1], FAfter.Blocks[Pair[2] + 1],
                  BeforeNames[Pair[1] + 1], Uninit)
  ELSE IF Pair[1] >= 0
  THEN [Kind |-> Removed,
        BlockName |-> getBlockName(FBefore.Blocks[Pair[1] + 1], Pair[1]),
        Instructions |-> <<>>,
        BeforeInstrCount |-> Len(FBefore.Blocks[Pair[1] + 1].Instrs),
        AfterInstrCount |-> 0]
  ELSE [Kind |-> Added,
        BlockName |-> getBlockName(FAfter.Blocks[Pair[2] + 1], Pair[2]),
        Instructions |-> <<>>,
        BeforeInstrCount |-> 0,
        AfterInstrCount |-> Len(FAfter.Blocks[Pair[2] + 1].Instrs)]

\* IRDiffEngine::diffFunctions
diffFunctions(FBefore, FAfter, Uninit) ==
  LET FD0 == [ Kind |-> Unchanged,
               FunctionName |-> FBefore.Name,
               BeforeSignature |-> getFunctionSignature(FBefore),
               AfterSignature |-> getFunctionSignature(FAfter),
               Blocks |-> <<>>,
               BeforeBlockCount |-> Len(FBefore.Blocks),
               AfterBlockCount |-> Len(FAfter.Blocks),
               BeforeInstrCount |-> instrCount(FBefore.Blocks),
               AfterInstrCount |-> instrCount(FAfter.Blocks),
               AttributesChanged |-> ~attributesEqual(FBefore, FAfter),
               SignatureChanged |->
                 getFunctionSignature(FBefore) # getFunctionSignature(FAfter) ]
  IN IF isDeclaration(FBefore) /\ isDeclaration(FAfter)
     THEN [FD0 EXCEPT !.Kind = Unchanged]
     ELSE IF isDeclaration(FBefore) \/ isDeclaration(FAfter)
     THEN [FD0 EXCEPT !.Kind = Modified]
     ELSE
       LET BeforeNames == [K \in 1..Len(FBefore.Blocks) |->
                             blockNameAt(FBefore.Blocks[K], K - 1)]
           AfterNames == [K \in 1..Len(FAfter.Blocks) |->
                            blockNameAt(FAfter.Blocks[K], K - 1)]
           BlockAlignment == alignSequences(BeforeNames, AfterNames)
           Blocks == [K \in 1..Len(BlockAlignment) |->
                        blockDiffOf(BlockAlignment[K], FBefore, FAfter,
                                    BeforeNames, Uninit)]
           AnyChange == \E K \in 1..Len(Blocks) : Blocks[K].Kind # Unchanged
       IN [FD0 EXCEPT
             !.Blocks = Blocks,
             !.Kind = IF ~AnyChange /\ ~FD0.AttributesChanged
                         /\ ~FD0.SignatureChanged
                      THEN Unchanged ELSE Modified]

RECURSIVE funcMap(_, _)
\* `for (F : M) Funcs[F.getName().str()] = &F;`: a later function of the
\* same name replaces the earlier one
funcMap(M, Map) ==
  IF M = <<>> THEN Map
  ELSE LET F == Head(M)
       IN funcMap(Tail(M), [N \in (DOMAIN Map) \cup {F.Name} |->
                              IF N = F.Name THEN F ELSE Map[N]])

RECURSIVE totalInstructions(_)
\* `for (F : M) for (BB : F) Total += BB.size();`
totalInstructions(M) ==
  IF M = <<>> THEN 0
  ELSE instrCount(Head(M).Blocks) + totalInstructions(Tail(M))

\* the FunctionDiff of a name that is in BeforeFuncs only
removedDiff(FBefore, Name) ==
  [ Kind |-> Removed, FunctionName |-> Name,
    BeforeSignature |-> getFunctionSignature(FBefore), AfterSignature |-> "",
    Blocks |-> <<>>,
    BeforeBlockCount |-> Len(FBefore.Blocks), AfterBlockCount |-> 0,
    BeforeInstrCount |-> instrCount(FBefore.Blocks), AfterInstrCount |-> 0,
    AttributesChanged |-> FALSE, SignatureChanged |-> FALSE ]

\* the FunctionDiff of a name that is in AfterFuncs only
addedDiff(FAfter, Name) ==
  [ Kind |-> Added, FunctionName |-> Name,
    BeforeSignature |-> "", AfterSignature |-> getFunctionSignature(FAfter),
    Blocks |-> <<>>,
    BeforeBlockCount |-> 0, AfterBlockCount |-> Len(FAfter.Blocks),
    BeforeInstrCount |-> 0, AfterInstrCount |-> instrCount(FAfter.Blocks),
    AttributesChanged |-> FALSE, SignatureChanged |-> FALSE ]

\* `FD.Kind == Modified || FD.AttributesChanged || FD.SignatureChanged`
countsAsModified(FD) ==
  FD.Kind = Modified \/ FD.AttributesChanged \/ FD.SignatureChanged

RECURSIVE diffBeforeLoop(_, _, _, _, _)
\* the loop over BeforeFuncs, visiting the names in the order Order
diffBeforeLoop(Order, BeforeFuncs, AfterFuncs, Acc, Uninit) ==
  IF Order = <<>> THEN Acc
  ELSE LET Name == Head(Order)
       IN IF Name \notin DOMAIN AfterFuncs
          THEN diffBeforeLoop(Tail(Order), BeforeFuncs, AfterFuncs,
                 [Acc EXCEPT
                    !.Functions = Append(@, removedDiff(BeforeFuncs[Name], Name)),
                    !.RemovedFunctions = @ + 1],
                 Uninit)
          ELSE LET FD == diffFunctions(BeforeFuncs[Name], AfterFuncs[Name],
                                       Uninit)
               IN diffBeforeLoop(Tail(Order), BeforeFuncs, AfterFuncs,
                    IF countsAsModified(FD)
                    THEN [Acc EXCEPT !.Functions = Append(@, FD),
                                     !.ModifiedFunctions = @ + 1]
                    ELSE [Acc EXCEPT !.Functions = Append(@, FD),
                                     !.UnchangedFunctions = @ + 1],
                    Uninit)

\* a second loop that takes every name of AfterFuncs for a new one
isAfterOnly_mut_always(Name, BeforeFuncs) == TRUE

\* `BeforeFuncs.find(Name) == BeforeFuncs.end()`
isAfterOnly(Name, BeforeFuncs) == Name \notin DOMAIN BeforeFuncs

RECURSIVE diffAfterLoop(_, _, _, _)
\* the loop over AfterFuncs, visiting the names in the order Order
diffAfterLoop(Order, BeforeFuncs, AfterFuncs, Acc) ==
  IF Order = <<>> THEN Acc
  ELSE LET Name == Head(Order)
       IN IF isAfterOnly(Name, BeforeFuncs)
          THEN diffAfterLoop(Tail(Order), BeforeFuncs, AfterFuncs,
                 [Acc EXCEPT
                    !.Functions = Append(@, addedDiff(AfterFuncs[Name], Name)),
                    !.AddedFunctions = @ + 1])
          ELSE diffAfterLoop(Tail(Order), BeforeFuncs, AfterFuncs, Acc)

\* the orders in which a std::unordered_map may hand out its keys
IterationOrders(Map) ==
  {O \in [1..Cardinality(DOMAIN Map) -> DOMAIN Map] :
     \A I, J \in DOMAIN O : I # J => O[I] # O[J]}

\* IRDiffEngine::diff; BeforeOrder and AfterOrder are the iteration orders of
\* the two unordered maps, Uninit the content of the fields the code never
\* initialises
diff(MBefore, MAfter, BeforeOrder, AfterOrder, Uninit) ==
  LET BeforeFuncs == funcMap(MBefore, <<>>)
      AfterFuncs == funcMap(MAfter, <<>>)
      MD0 == [ Functions |-> <<>>,
               AddedFunctions |-> 0, RemovedFunctions |-> 0,
               ModifiedFunctions |-> 0, UnchangedFunctions |-> 0,
               TotalBeforeInstructions |-> totalInstructions(MBefore),
               TotalAfterInstructions |-> totalInstructions(MAfter) ]
      MD1 == diffBeforeLoop(BeforeOrder, BeforeFuncs, AfterFuncs, MD0, Uninit)
  IN diffAfterLoop(AfterOrder, BeforeFuncs, AfterFuncs, MD1)

\* ModuleDiff::instructionDelta
instructionDelta(D) == D.TotalAfterInstructions - D.TotalBeforeInstructions

(***************************************************************************)
(* Inputs of the differ                                                    *)
(***************************************************************************)

\* the largest number of functions of a module
MaxFuncs == 2

InstrAdd == [Printed |-> "  %1 = add i32 %0, 1", OpcodeName |-> "add"]
InstrRet == [Printed |-> "  ret void", OpcodeName |-> "ret"]

\* a function of the given name: Body is its block list
Function(Name, Type, Attributes, Body) ==
  [ Name |-> Name, Type |-> Type, CallingConv |-> "ccc",
    Linkage |-> "external", Visibility |-> "default",
    Attributes |-> Attributes, Blocks |-> Body ]

\* the functions modules are made of: two declarations that differ in their
\* attribute list, a one-block definition, and a definition of another type
\* whose first block has no name
FunctionVariants(Name) ==
  { Function(Name, "void ()", "", <<>>),
    Function(Name, "void ()", "nounwind", <<>>),
    Function(Name, "void ()", "",
             << [Name |-> "entry", Instrs |-> <<InstrAdd, InstrRet>>] >>),
    Function(Name, "i32 (i32)", "",
             << [Name |-> "", Instrs |-> <<InstrRet>>],
                [Name |-> "exit", Instrs |-> <<InstrAdd, InstrRet>>] >>) }

\* function names; "" is the name of every function without a name (@0, @1)
FunctionNames == {"f", ""}

FunctionPool == UNION {FunctionVariants(N) : N \in FunctionNames}

\* modules: named functions have distinct names (the symbol table), any
\* number of functions may have no name
ModulePool ==
  { M \in UNION {[1..N -> FunctionPool] : N \in 0..MaxFuncs} :
      \A I, J \in DOMAIN M :
        (I # J /\ M[I].Name = M[J].Name) => M[I].Name = "" }

\* values an `unsigned` that was never initialised may hold: zero, the line
\* of a real instruction, and a large value
UninitLines == {0, 1, 2147483647}

\* the longest instruction list of a block in the block-level inputs
MaxInstrs == 3

InstrCall == [Printed |-> "  call void @g()", OpcodeName |-> "call"]
InstrStore ==
  [Printed |-> "  store i32 0, ptr @x, align 4", OpcodeName |-> "store"]

\* instructions of the block-level inputs; a call and a store may occur
\* several times in one block with the same printed text
InstrPool == {InstrCall, InstrStore, InstrRet}

\* instruction lists of a block
BlockBodies == UNION {[1..N -> InstrPool] : N \in 1..MaxInstrs}

\* a module whose only function f has the single block entry
SingleBlockModule(Body) ==
  << Function("f", "void ()", "", << [Name |-> "entry", Instrs |-> Body] >>) >>

SingleBlockModules == {SingleBlockModule(Body) : Body \in BlockBodies}

EmptyModuleDiff ==
  [ Functions |-> <<>>, AddedFunctions |-> 0, RemovedFunctions |-> 0,
    ModifiedFunctions |-> 0, UnchangedFunctions |-> 0,
    TotalBeforeInstructions |-> 0, TotalAfterInstructions |-> 0 ]

(***************************************************************************)
(* Inputs of the classifier                                                *)
(***************************************************************************)

\* the longest remark list handed to analyze
MaxRemarks == 3

Remark(Kind, PassName, RemarkName, FunctionName, Message) ==
  [ Kind |-> Kind, PassName |-> PassName, RemarkName |-> RemarkName,
    FunctionName |-> FunctionName, Message |-> Message, Args |-> <<>> ]

\* remarks of every severity the database assigns, two of them of equal
\* severity, one that no rule matches and one Applied
RemarkPool ==
  { Remark(Missed, "loop-vectorize", "", "loop_dependency",
           "unsafe dependent memory operations"),
    Remark(Missed, "inline", "NotInlined", "use_square",
           "square not inlined into use_square because it has noinline"),
    Remark(Missed, "inline", "NotInlined", "f",
           "g not inlined into f because too costly to inline"),
    Remark(Analysis, "futurepass", "SomeThing", "f", "weird"),
    Remark(AnalysisAliasing, "memcpyopt", "", "", "memcpy not optimized"),
    Remark(Applied, "inline", "Inlined", "f", "g inlined into f") }

RemarkLists == UNION {[1..N -> RemarkPool] : N \in 0..MaxRemarks}

\* module diffs handed to analyze: an empty one and the diff of two modules
\* that both define f; analyze reads no instruction record of the diff, so
\* the unassigned Line of its records is taken as 0 here
DiffPool ==
  { EmptyModuleDiff } \cup
  { diff(<< Function("f", "void ()", "",
              << [Name |-> "entry", Instrs |-> <<InstrAdd, InstrRet>>] >>) >>,
         << Function("f", "void ()", "",
              << [Name |-> "entry", Instrs |-> <<InstrRet>>] >>) >>,
         <<"f">>, <<"f">>, Uninit) : Uninit \in {0} }

\* single remarks for the matcher: every combination of these fields
MatchPassNames ==
  {"inline", "Loop-Vectorize", "futurepass", "memcpyopt", "gvn"}
MatchRemarkNames ==
  {"NotInlined", "SomeThing", "", "neverinline", "LoadElim", "MissedDetails"}
MatchMessages ==
  { "weird", "", "unsafe dependent memory operations",
    "callee is too costly and RECURSIVE",
    "loop not vectorized: function has optnone",
    "has noinline attribute" }
MatchRemarks ==
  { Remark(K, P, N, "f", M) :
      K \in {Missed, Analysis}, P \in MatchPassNames,
      N \in MatchRemarkNames, M \in MatchMessages }

(***************************************************************************)
(* Inputs of interpolateArgs                                               *)
(***************************************************************************)

\* the largest number of pieces a template is put together from
MaxTemplatePieces == 2
\* the largest number of arguments of a remark
MaxArgs == 2

TemplatePieces == {"{K}", "{KU}", "{FunctionName}", "{", "K}", "x"}
Templates ==
  {Concat(Ps) : Ps \in UNION {[1..N -> TemplatePieces] :
                                N \in 0..MaxTemplatePieces}}
ArgKeys == {"K", "FunctionName"}
ArgValues == {"", "v", "{K}", "{FunctionName}", "{"}
ArgPool == [Key : ArgKeys, Value : ArgValues]
ArgLists == UNION {[1..N -> ArgPool] : N \in 0..MaxArgs}
InterpFunctionNames == {"f", ""}

(***************************************************************************)
(* Specifications.  Each one draws the inputs of one operation in its      *)
(* initial states and applies the operation once; the variables of the     *)
(* other operations stay at rest.                                          *)
(***************************************************************************)

ClassifierAtRest ==
  /\ Remarks = <<>> /\ Diff = EmptyModuleDiff
  /\ Results = <<>> /\ analyzeDone = FALSE
InterpAtRest ==
  /\ Template = "" /\ R = [FunctionName |-> "", Args |-> <<>>]
  /\ Result = "" /\ interpDone = FALSE
DifferAtRest ==
  /\ Before = <<>> /\ After = <<>>
  /\ MD = EmptyModuleDiff /\ diffDone = FALSE
ParserAtRest ==
  /\ Records = <<>> /\ FileContent = ""
  /\ Parsed = <<>> /\ parseDone = FALSE

\* the two LLVMContext objects a flow can create
ContextIds == {1, 2}

\* the two modules of a session
ModuleIds == {"before", "after"}

\* alignSequences is not running
\* parseRemarksYAML is not being stepped through
ScanAtRest ==
  /\ ScanPos = 0 /\ CurRecord = "" /\ ArgsSearch = 0 /\ ScanMsg = ""
  /\ Scanned = <<>> /\ ypc = ""

AlignAtRest ==
  /\ SeqA = <<>> /\ SeqB = <<>> /\ DPTable = <<>>
  /\ PosI = 0 /\ PosJ = 0 /\ Aligned = <<>> /\ apc = ""

\* an AnalysisSession as it is declared: nothing stored, no pipeline name,
\* VerificationFailed = false
EmptySession ==
  [ PassPipelineUsed |-> "", BeforeIR |-> FALSE, AfterIR |-> FALSE,
    Remarks |-> FALSE, Diff |-> FALSE, Diagnostics |-> FALSE,
    VerificationFailed |-> FALSE ]

\* no flow runs
SessionAtRest ==
  /\ Flow = "" /\ Fate = <<>> /\ spc = ""
  /\ Config = <<>> /\ Calls = <<>> /\ Session = EmptySession
  /\ Passes = <<>> /\ Error = ""
  /\ CtxState = [C \in ContextIds |-> "none"]
  /\ ModState = [M \in ModuleIds |-> "none"]
  /\ ModCtx = [M \in ModuleIds |-> 0]
  /\ Locals = <<>> /\ SessionContexts = <<>> /\ SessionModules = {}
  /\ Dropped = 0

\* the most threads that emit diagnostics
MaxThreads == 2

Threads == 1..MaxThreads

\* a thread outside handleDiagnostics
Idle == "idle"

CollectorAtRest ==
  /\ Emits = [T \in Threads |-> <<>>]
  /\ pc = [T \in Threads |-> Idle]
  /\ next = [T \in Threads |-> 0]
  /\ Local = [T \in Threads |-> <<>>]
  /\ EndPos = [T \in Threads |-> 0]
  /\ CollectedRemarks = <<>> /\ Mutex = 0
  /\ Returned = [T \in Threads |-> <<>>]

\* a call of DiagnosticEngine::analyze
Analyze ==
  /\ ~analyzeDone
  /\ Results' = analyze(Remarks, Diff)
  /\ analyzeDone' = TRUE
  /\ UNCHANGED <<Remarks, Diff, interpVars, differVars, parserVars,
               collectorVars, sessionVars, alignVars,
               scanVars>>

\* a call of DiagnosticEngine::interpolateArgs
Interpolate ==
  /\ ~interpDone
  /\ Result' = interpolateArgs(Template, R)
  /\ interpDone' = TRUE
  /\ UNCHANGED <<Template, R, classifierVars, differVars, parserVars,
               collectorVars, sessionVars, alignVars,
               scanVars>>

\* a call of IRDiffEngine::diff; the two unordered maps hand out their keys
\* in some order
DoDiff ==
  /\ ~diffDone
  /\ \E BeforeOrder \in IterationOrders(funcMap(Before, <<>>)),
        AfterOrder \in IterationOrders(funcMap(After, <<>>)),
        Uninit \in UninitLines :
       MD' = diff(Before, After, BeforeOrder, AfterOrder, Uninit)
  /\ diffDone' = TRUE
  /\ UNCHANGED <<Before, After, classifierVars, interpVars, parserVars,
               collectorVars, sessionVars, alignVars,
               scanVars>>

InitAnalyze ==
  /\ Remarks \in RemarkLists /\ Diff \in DiffPool
  /\ Results = <<>> /\ analyzeDone = FALSE
  /\ InterpAtRest /\ DifferAtRest /\ ParserAtRest /\ CollectorAtRest
  /\ SessionAtRest /\ AlignAtRest /\ ScanAtRest
NextAnalyze == Analyze
SpecAnalyze == InitAnalyze /\ [][NextAnalyze]_vars

InitMatch ==
  /\ Remarks \in {<<Rm>> : Rm \in MatchRemarks} /\ Diff = EmptyModuleDiff
  /\ Results = <<>> /\ analyzeDone = FALSE
  /\ InterpAtRest /\ DifferAtRest /\ ParserAtRest /\ CollectorAtRest
  /\ SessionAtRest /\ AlignAtRest /\ ScanAtRest
NextMatch == Analyze
SpecMatch == InitMatch /\ [][NextMatch]_vars

InitInterp ==
  /\ Template \in Templates
  /\ R \in [FunctionName : InterpFunctionNames, Args : ArgLists]
  /\ Result = "" /\ interpDone = FALSE
  /\ ClassifierAtRest /\ DifferAtRest /\ ParserAtRest /\ CollectorAtRest
  /\ SessionAtRest /\ AlignAtRest /\ ScanAtRest
NextInterp == Interpolate
SpecInterp == InitInterp /\ [][NextInterp]_vars

InitDiff ==
  /\ Before \in ModulePool /\ After \in ModulePool
  /\ MD = EmptyModuleDiff /\ diffDone = FALSE
  /\ ClassifierAtRest /\ InterpAtRest /\ ParserAtRest /\ CollectorAtRest
  /\ SessionAtRest /\ AlignAtRest /\ ScanAtRest
NextDiff == DoDiff
SpecDiff == InitDiff /\ [][NextDiff]_vars

\* diff on two modules that consist of one single-block function f
InitBlocks ==
  /\ Before \in SingleBlockModules /\ After \in SingleBlockModules
  /\ MD = EmptyModuleDiff /\ diffDone = FALSE
  /\ ClassifierAtRest /\ InterpAtRest /\ ParserAtRest /\ CollectorAtRest
  /\ SessionAtRest /\ AlignAtRest /\ ScanAtRest
NextBlocks == DoDiff
SpecBlocks == InitBlocks /\ [][NextBlocks]_vars

(***************************************************************************)
(* Properties of the classifier                                            *)
(***************************************************************************)

\* the positions of the remarks analyze does not skip
NonAppliedIndices(Rms) == {I \in 1..Len(Rms) : Rms[I].Kind # Applied}

\* the ways to name, for every returned diagnostic, a distinct remark that
\* is not Applied as its origin
Origins ==
  { Src \in [1..Len(Results) -> NonAppliedIndices(Remarks)] :
      \A I, J \in 1..Len(Results) : I # J => Src[I] # Src[J] }

\* C1: analyze returns exactly one DiagnosticResult for each input remark
\* whose kind is not Applied and none for an Applied remark: the diagnostics
\* can be matched one to one with the non-Applied remarks, by pass name and
\* function name, and the output is as long as there are such remarks.
C1_OneDiagnosticPerNonApplied ==
  analyzeDone =>
    /\ Len(Results) = Cardinality(NonAppliedIndices(Remarks))
    /\ \E Src \in Origins :
         \A K \in 1..Len(Results) :
           /\ Results[K].PassName = Remarks[Src[K]].PassName
           /\ Results[K].FunctionName = Remarks[Src[K]].FunctionName

\* analyze has dropped an Applied remark standing between two others
C1_Witness ==
  /\ analyzeDone
  /\ Len(Remarks) = 3 /\ Len(Results) = 2
  /\ Remarks[2].Kind = Applied
  /\ Remarks[1].Kind = Missed /\ Remarks[3].Kind = AnalysisAliasing

\* the diagnostic analyze builds for one remark: its classification with
\* the diff of its function attached
ExpectedDiagnostic(Rm) ==
  LET DR == analyzeRemark(Rm)
      Hits == {K \in 1..Len(Diff.Functions) :
                 Diff.Functions[K].FunctionName = Rm.FunctionName}
  IN IF Hits = {} THEN DR
     ELSE [DR EXCEPT !.IRDiff =
             << Diff.Functions[CHOOSE K \in Hits : \A L \in Hits : L <= K] >>]

\* C2: the list analyze returns is in ascending order of severity, and two
\* diagnostics of equal severity stand in the order of the remarks they come
\* from.
C2_SortedAndStable ==
  analyzeDone =>
    LET Expected == [I \in 1..Len(Remarks) |-> ExpectedDiagnostic(Remarks[I])]
    IN /\ \A K \in 1..(Len(Results) - 1) :
            Results[K].Severity <= Results[K + 1].Severity
       /\ \E Src \in Origins :
            /\ \A K \in 1..Len(Results) : Results[K] = Expected[Src[K]]
            /\ \A K, L \in 1..Len(Results) :
                 (K < L /\ Results[K].Severity = Results[L].Severity)
                   => Src[K] < Src[L]

\* a Critical remark given last has moved in front of two High ones, which
\* kept their order
C2_Witness ==
  /\ analyzeDone
  /\ Len(Remarks) = 3 /\ Len(Results) = 3
  /\ Remarks[1].FunctionName = "use_square" /\ Remarks[2].FunctionName = "f"
  /\ Remarks[3].FunctionName = "loop_dependency"
  /\ Results[1].FunctionName = "loop_dependency"
  /\ Results[1].Severity = Critical
  /\ Results[2].FunctionName = "use_square" /\ Results[3].FunctionName = "f"
  /\ Results[2].Severity = High /\ Results[3].Severity = High

\* Sel occurs in Text when letter case is ignored (the empty selector occurs
\* in every text)
OccursIgnoringCase(Sel, Text) ==
  \E Off \in 0..(Len(Text) - Len(Sel)) :
    \A K \in 1..Len(Sel) :
      toLower(SubSeq(Text, Off + K, Off + K)) = toLower(SubSeq(Sel, K, K))

\* the patterns the claim says are considered for a remark
Considered(Rm) ==
  { I \in 1..Len(Patterns) :
      /\ OccursIgnoringCase(Patterns[I].PassNameSubstr, Rm.PassName)
      /\ OccursIgnoringCase(Patterns[I].RemarkNameSubstr, Rm.RemarkName)
      /\ OccursIgnoringCase(Patterns[I].MessageSubstr, Rm.Message) }

\* the score the claim gives a pattern: 2, 3 and 4 for its non-empty
\* selectors
ClaimedScore(I) ==
  (IF Patterns[I].PassNameSubstr = "" THEN 0 ELSE 2)
  + (IF Patterns[I].RemarkNameSubstr = "" THEN 0 ELSE 3)
  + (IF Patterns[I].MessageSubstr = "" THEN 0 ELSE 4)

\* C3: findMatchingPattern returns nullptr exactly when no pattern is
\* considered; otherwise it returns a considered pattern whose score no
\* considered pattern exceeds, the earliest registered of those with that
\* score, and the diagnostic of the remark carries that pattern's short
\* reason.
C3_BestPatternWins ==
  analyzeDone =>
    \A I \in 1..Len(Remarks) :
      LET Rm == Remarks[I]
          Best == findMatchingPattern(Rm)
      IN /\ (Best = 0) <=> (Considered(Rm) = {})
         /\ Best # 0 =>
              /\ Best \in Considered(Rm)
              /\ \A J \in Considered(Rm) :
                   /\ ClaimedScore(J) <= ClaimedScore(Best)
                   /\ ClaimedScore(J) = ClaimedScore(Best) => Best <= J
              /\ (Len(Remarks) = 1 /\ Rm.Kind # Applied)
                   => /\ Len(Results) = 1
                      /\ Results[1].ShortReason = Patterns[Best].ShortReason

\* two rules of score 9 match the remark and the one registered first wins
C3_Witness ==
  /\ analyzeDone
  /\ Len(Remarks) = 1
  /\ Remarks[1].PassName = "inline" /\ Remarks[1].RemarkName = "NotInlined"
  /\ Remarks[1].Message = "callee is too costly and RECURSIVE"
  /\ {1, 2} \subseteq Considered(Remarks[1])
  /\ Results[1].ShortReason = "Inlining rejected: callee too large"

\* the diagnostic the claim describes for a remark no pattern matches
IsFallbackFor(DR, Rm) ==
  /\ DR.Severity = Medium
  /\ DR.EstimatedSpeedup = 0
  /\ DR.ShortReason = "Optimization missed: " \o Rm.RemarkName
  /\ DR.NumSuggestions = 0

\* C4: the diagnostic of a non-Applied remark is the fallback (severity
\* Medium, speedup 0, short reason "Optimization missed: <remark name>", no
\* suggestions) when no pattern of the database matches the remark, and
\* only then.
C4_FallbackIffNoMatch ==
  (analyzeDone /\ Len(Remarks) = 1 /\ Remarks[1].Kind # Applied) =>
    /\ Len(Results) = 1
    /\ IsFallbackFor(Results[1], Remarks[1])
         <=> (Considered(Remarks[1]) = {})

\* the remark of the unknown pass has got the fallback
C4_Witness ==
  /\ analyzeDone
  /\ Len(Remarks) = 1
  /\ Remarks[1].PassName = "futurepass"
  /\ Remarks[1].RemarkName = "SomeThing" /\ Remarks[1].Message = "weird"
  /\ Results[1].Severity = Medium /\ Results[1].EstimatedSpeedup = 0
  /\ Results[1].ShortReason = "Optimization missed: SomeThing"
  /\ Results[1].NumSuggestions = 0

(***************************************************************************)
(* Properties of interpolateArgs                                           *)
(***************************************************************************)

\* a character that occurs in no template, argument or function name
Mark == "#"

RECURSIVE SubstituteAll(_, _, _)
\* S with every occurrence of What, found from left to right, replaced by
\* With; the text put in is not searched again
SubstituteAll(S, What, With) ==
  IF Len(S) < Len(What) \/ Len(S) = 0 THEN S
  ELSE IF SubSeq(S, 1, Len(What)) = What
       THEN With \o SubstituteAll(SubSeq(S, Len(What) + 1, Len(S)), What, With)
       ELSE SubSeq(S, 1, 1) \o SubstituteAll(SubSeq(S, 2, Len(S)), What, With)

\* what interpolation gives when every occurrence of the placeholder Ph in
\* the template is one opaque character while the template is interpolated,
\* and Becomes is put in its place afterwards
WithPlaceholderAs(Ph, Becomes) ==
  SubstituteAll(interpolateArgs(SubstituteAll(Template, Ph, Mark), R),
                Mark, Becomes)

\* the keys of the placeholders of a string: the text between a "{" and the
\* next "}" with no brace in between
PlaceholderKeys(S) ==
  { SubSeq(S, I + 1, J - 1) : <<I, J>> \in
      { P \in (1..Len(S)) \X (1..Len(S)) :
          /\ P[1] < P[2]
          /\ SubSeq(S, P[1], P[1]) = "{" /\ SubSeq(S, P[2], P[2]) = "}"
          /\ \A K \in (P[1] + 1)..(P[2] - 1) :
               SubSeq(S, K, K) \notin {"{", "}"} } }

KeysOf(Args) == {Args[I].Key : I \in 1..Len(Args)}

\* the value of the first argument whose key is Key
FirstValue(Args, Key) ==
  Args[CHOOSE I \in 1..Len(Args) :
         /\ Args[I].Key = Key
         /\ \A J \in 1..(I - 1) : Args[J].Key # Key].Value

\* C5: interpolateArgs replaces every occurrence of {Key} in the template
\* with the value of the first argument whose key is Key, whatever the
\* argument values contain: for every argument key other than the reserved
\* FunctionName, the result is the one obtained by putting that value in the
\* place of each {Key} of the template.
C5_FirstArgumentValueReplacesKey ==
  interpDone =>
    \A Key \in KeysOf(R.Args) \ {"FunctionName"} :
      Result = WithPlaceholderAs(Placeholder(Key), FirstValue(R.Args, Key))

\* C6: each occurrence of {FunctionName} in the template is replaced by the
\* remark's function name, for every content of the argument list.
C6_FunctionNameReplacesReserved ==
  interpDone =>
    Result = WithPlaceholderAs("{FunctionName}", R.FunctionName)

\* C7: a placeholder {K} of the template whose key is not the key of any
\* argument and is not FunctionName appears unchanged at every one of its
\* occurrences: the result is the one obtained when each {K} of the template
\* is an opaque character during the interpolation.
C7_UnmatchedPlaceholderStays ==
  interpDone =>
    \A Key \in PlaceholderKeys(Template) \ (KeysOf(R.Args) \cup {"FunctionName"}) :
      Result = WithPlaceholderAs(Placeholder(Key), Placeholder(Key))

\* {K} has been replaced next to {KU}, which no argument matches and which
\* is still there
C7_Witness ==
  /\ interpDone
  /\ Template = "{K}{KU}"
  /\ Len(R.Args) = 1 /\ R.Args[1].Key = "K" /\ R.Args[1].Value = "v"
  /\ Result = "v{KU}"

(***************************************************************************)
(* Properties of the differ                                                *)
(***************************************************************************)

NamesOf(M) == {M[I].Name : I \in 1..Len(M)}

RECURSIVE SumOver(_, _)
\* the sum of the field Field over the entries of a FunctionDiff list
SumOver(Functions, Field) ==
  IF Functions = <<>> THEN 0
  ELSE Head(Functions)[Field] + SumOver(Tail(Functions), Field)

\* C8: the four function counters of the ModuleDiff add up to the number of
\* entries of Functions, and Functions holds exactly one entry for every
\* function name that occurs in before or after.
C8_CountersPartitionFunctions ==
  diffDone =>
    /\ MD.AddedFunctions + MD.RemovedFunctions + MD.ModifiedFunctions
         + MD.UnchangedFunctions = Len(MD.Functions)
    /\ \A N \in NamesOf(Before) \cup NamesOf(After) :
         Cardinality({K \in 1..Len(MD.Functions) :
                        MD.Functions[K].FunctionName = N}) = 1
    /\ \A K \in 1..Len(MD.Functions) :
         MD.Functions[K].FunctionName \in NamesOf(Before) \cup NamesOf(After)

\* one function of before has gone and a function of another name is new
C8_Witness ==
  /\ diffDone
  /\ Len(Before) = 1 /\ Len(After) = 2
  /\ Len(MD.Functions) = 2
  /\ MD.RemovedFunctions = 1 /\ MD.AddedFunctions = 1

\* C9: TotalBeforeInstructions is the sum of BeforeInstrCount over all
\* entries of Functions and TotalAfterInstructions the sum of
\* AfterInstrCount, for every pair of modules.
C9_TotalsAreSums ==
  diffDone =>
    /\ MD.TotalBeforeInstructions = SumOver(MD.Functions, "BeforeInstrCount")
    /\ MD.TotalAfterInstructions = SumOver(MD.Functions, "AfterInstrCount")

\* C10: the diff of a module against a module of the same printed form has
\* no modified, added or removed function, as many unchanged functions as
\* the module has functions, instruction delta 0, and only Unchanged
\* function, block and instruction diffs.
C10_IdenticalModulesUnchanged ==
  (diffDone /\ Before = After) =>
    /\ MD.ModifiedFunctions = 0 /\ MD.AddedFunctions = 0
    /\ MD.RemovedFunctions = 0
    /\ MD.UnchangedFunctions = Len(Before)
    /\ instructionDelta(MD) = 0
    /\ \A F \in 1..Len(MD.Functions) :
         /\ MD.Functions[F].Kind = Unchanged
         /\ \A B \in 1..Len(MD.Functions[F].Blocks) :
              /\ MD.Functions[F].Blocks[B].Kind = Unchanged
              /\ \A I \in 1..Len(MD.Functions[F].Blocks[B].Instructions) :
                   MD.Functions[F].Blocks[B].Instructions[I].Kind = Unchanged

\* the names of the functions of a module, in module order
ModuleOrder(M) == [I \in 1..Len(M) |-> M[I].Name]

\* the names of the entries of a FunctionDiff list, in list order
EntryNames(Functions) ==
  [K \in 1..Len(Functions) |-> Functions[K].FunctionName]

\* C11: Functions lists first one entry for every function of the before
\* module, in the order in which the before module iterates its functions,
\* and after them one entry for every function of the after module that is
\* absent from before.
C11_FunctionsInModuleOrder ==
  diffDone =>
    /\ Len(MD.Functions) >= Len(Before)
    /\ SubSeq(EntryNames(MD.Functions), 1, Len(Before)) = ModuleOrder(Before)
    /\ \A N \in NamesOf(After) \ NamesOf(Before) :
         Cardinality({K \in (Len(Before) + 1)..Len(MD.Functions) :
                        MD.Functions[K].FunctionName = N}) = 1
    /\ \A K \in (Len(Before) + 1)..Len(MD.Functions) :
         MD.Functions[K].FunctionName \in NamesOf(After) \ NamesOf(Before)

(***************************************************************************)
(* Properties of the instruction alignment                                 *)
(***************************************************************************)

\* the instruction lists of the single block of f in before and after
BeforeBody == Before[1].Blocks[1].Instrs
AfterBody == After[1].Blocks[1].Instrs

\* the positions at which the two lists differ in the instruction text
DifferingPositions ==
  {K \in 1..Len(BeforeBody) :
     getInstructionText(BeforeBody[K]) # getInstructionText(AfterBody[K])}

\* the two blocks have the same length and differ at position P only
SingleSubstitutionAt(P) ==
  /\ Len(BeforeBody) = Len(AfterBody)
  /\ DifferingPositions = {P}

\* the outcome claimed for a substitution at position P: Unchanged before P,
\* Removed (the before instruction) at P, Added (the after instruction) right
\* after it, Unchanged from there on, and Modified at block, function and
\* module level
RemovedThenAddedAt(P) ==
  LET FD == MD.Functions[1]
      BD == FD.Blocks[1]
      IDs == BD.Instructions
  IN /\ Len(MD.Functions) = 1 /\ Len(FD.Blocks) = 1
     /\ Len(IDs) = Len(BeforeBody) + 1
     /\ \A K \in 1..(P - 1) :
          /\ IDs[K].Kind = Unchanged
          /\ IDs[K].Before = recordInstruction(BeforeBody[K], K)
          /\ IDs[K].After = recordInstruction(AfterBody[K], K)
     /\ IDs[P].Kind = Removed
     /\ IDs[P].Before = recordInstruction(BeforeBody[P], P)
     /\ IDs[P + 1].Kind = Added
     /\ IDs[P + 1].After = recordInstruction(AfterBody[P], P)
     /\ \A K \in (P + 2)..Len(IDs) :
          /\ IDs[K].Kind = Unchanged
          /\ IDs[K].Before = recordInstruction(BeforeBody[K - 1], K - 1)
          /\ IDs[K].After = recordInstruction(AfterBody[K - 1], K - 1)
     /\ BD.Kind = Modified
     /\ FD.Kind = Modified
     /\ MD.ModifiedFunctions >= 1

\* neither the text that is replaced nor the text that replaces it occurs
\* at another position of the block
SubstitutedTextsAreUnique(P) ==
  \A K \in 1..Len(BeforeBody) :
    K # P =>
      /\ getInstructionText(BeforeBody[K]) # getInstructionText(BeforeBody[P])
      /\ getInstructionText(AfterBody[K]) # getInstructionText(AfterBody[P])

SomeBlockChanged(FD) == \E B \in 1..Len(FD.Blocks) : FD.Blocks[B].Kind # Unchanged

\* C13: for every function name present in both modules the FunctionDiff is
\* Modified if and only if one of its block diffs is not Unchanged or the
\* attributes differ or the signature differs, and Unchanged otherwise,
\* declarations included.
C13_ModifiedIffChanged ==
  diffDone =>
    \A K \in 1..Len(MD.Functions) :
      LET FD == MD.Functions[K]
      IN FD.FunctionName \in NamesOf(Before) \cap NamesOf(After) =>
           /\ FD.Kind \in {Modified, Unchanged}
           /\ FD.Kind = Modified <=>
                (SomeBlockChanged(FD) \/ FD.AttributesChanged
                   \/ FD.SignatureChanged)

\* the record Rec is the record of an instruction of the block Body
IsRecordOf(Rec, Body) ==
  \E K \in 1..Len(Body) : Rec = recordInstruction(Body[K], K)

\* the record Rec was never assigned: it has no text and no opcode name
IsUnassigned(Rec) == Rec.Text = "" /\ Rec.OpcodeName = ""

\* every instruction diff of the module diff, as <<function, block, index>>
InstructionDiffPositions ==
  { <<F, B, I>> \in (1..MaxFuncs + 1) \X (1..2) \X (1..(2 * MaxInstrs + 2)) :
      /\ F <= Len(MD.Functions)
      /\ B <= Len(MD.Functions[F].Blocks)
      /\ I <= Len(MD.Functions[F].Blocks[B].Instructions) }

\* C14: every InstructionDiff has kind Unchanged, Added or Removed, never
\* Modified; an Unchanged entry carries the before and the after record and
\* their texts are equal, a Removed entry carries only the before record and
\* an Added entry only the after record.
C14_InstructionDiffKinds ==
  diffDone =>
    \A Pos \in InstructionDiffPositions :
      LET ID == MD.Functions[Pos[1]].Blocks[Pos[2]].Instructions[Pos[3]]
      IN /\ ID.Kind \in {Unchanged, Added, Removed}
         /\ ID.Kind = Unchanged =>
              /\ IsRecordOf(ID.Before, BeforeBody)
              /\ IsRecordOf(ID.After, AfterBody)
              /\ ID.Before.Text = ID.After.Text
         /\ ID.Kind = Removed =>
              IsRecordOf(ID.Before, BeforeBody) /\ IsUnassigned(ID.After)
         /\ ID.Kind = Added =>
              IsUnassigned(ID.Before) /\ IsRecordOf(ID.After, AfterBody)

\* a block diff with an entry of each of the three kinds
C14_Witness ==
  /\ diffDone
  /\ \A Kind \in {Unchanged, Added, Removed} :
       \E Pos \in InstructionDiffPositions :
         MD.Functions[Pos[1]].Blocks[Pos[2]].Instructions[Pos[3]].Kind = Kind

(***************************************************************************)
(* Record-file parser (PassAnalyzer::parseRemarksYAML).  The file content  *)
(* is a string; positions are 0-based as in llvm::StringRef.               *)
(***************************************************************************)

min(X, Y) == IF X < Y THEN X ELSE Y

\* llvm::StringRef::slice(Start, End): the characters [Start, End), both
\* ends clamped to the string; End = npos means the end of the string
slice(S, Start, End) ==
  LET St == min(Start, Len(S))
      En == IF End = NPOS THEN Len(S) ELSE min(max(St, End), Len(S))
  IN SubSeq(S, St + 1, En)

\* the characters llvm::StringRef::trim() strips (its default set also has
\* the vertical tab, which no input of the model contains)
Whitespace == {" ", "\t", "\n", "\f", "\r"}

\* llvm::StringRef::trim()
trim(S) ==
  LET Kept == {K \in 1..Len(S) : SubSeq(S, K, K) \notin Whitespace}
  IN IF Kept = {} THEN ""
     ELSE SubSeq(S, CHOOSE K \in Kept : \A Q \in Kept : K <= Q,
                    CHOOSE K \in Kept : \A Q \in Kept : K >= Q)

\* llvm::StringRef::starts_with
starts_with(S, Prefix) ==
  Len(S) >= Len(Prefix) /\ SubSeq(S, 1, Len(Prefix)) = Prefix

\* llvm::StringRef::ends_with
ends_with(S, Suffix) ==
  Len(S) >= Len(Suffix)
    /\ SubSeq(S, Len(S) - Len(Suffix) + 1, Len(S)) = Suffix

\* the character at 0-based position Pos
charAt(S, Pos) == SubSeq(S, Pos + 1, Pos + 1)

\* the length of the longest prefix of S made of decimal digits
digitPrefix(S) ==
  LET NonDigits == {K \in 1..Len(S) :
                      \A D \in 1..10 : SubSeq(S, K, K) # SubSeq(Digits, D, D)}
  IN IF NonDigits = {} THEN Len(S)
     ELSE (CHOOSE K \in NonDigits : \A Q \in NonDigits : K <= Q) - 1

\* the value of the decimal digit Ch
digitValue(Ch) == (CHOOSE D \in 1..10 : SubSeq(Digits, D, D) = Ch) - 1

RECURSIVE digitsValue(_, _)
\* the number written by the digit string S, Acc being the value read so far
digitsValue(S, Acc) ==
  IF S = "" THEN Acc
  ELSE digitsValue(SubSeq(S, 2, Len(S)), Acc * 10 + digitValue(SubSeq(S, 1, 1)))

\* `try { Field = std::stoul(Str); } catch (...) {}`: the number at the
\* start of Str, or Default when Str does not start with a digit and stoul
\* throws
stoulOr(Str, Default) ==
  IF digitPrefix(Str) = 0 THEN Default
  ELSE digitsValue(SubSeq(Str, 1, digitPrefix(Str)), 0)

\* the first position of Field in Record that is at the start of Record or
\* follows a newline, a space or an opening brace; npos if there is none
fieldPos(Record, Field) ==
  LET Hits == {FPos \in 0..(Len(Record) - Len(Field)) :
                 /\ SubSeq(Record, FPos + 1, FPos + Len(Field)) = Field
                 /\ \/ FPos = 0
                    \/ charAt(Record, FPos - 1) \in {"\n", " ", "{"}}
  IN IF Hits = {} THEN NPOS
     ELSE CHOOSE FPos \in Hits : \A Q \in Hits : FPos <= Q

\* the lambda extractField of parseRemarksYAML
extractField(Record, Field) ==
  LET FPos == fieldPos(Record, Field)
  IN IF FPos = NPOS THEN ""
     ELSE
       LET LineEnd0 == find(Record, "\n", FPos)
           LineEnd == IF LineEnd0 = NPOS THEN Len(Record) ELSE LineEnd0
           LineStr == slice(Record, FPos + Len(Field), LineEnd)
           QuoteStart == find(LineStr, "'", 0)
       IN IF QuoteStart = NPOS THEN trim(LineStr)
          ELSE LET QuoteEnd == find(LineStr, "'", QuoteStart + 1)
               IN IF QuoteEnd = NPOS THEN ""
                  ELSE slice(LineStr, QuoteStart + 1, QuoteEnd)

\* the piece an Args line contributes: the value after the first ": ",
\* without its enclosing single quotes
pieceOf(Line, ValPos) ==
  LET Val == trim(slice(Line, ValPos + 2, NPOS))
  IN IF starts_with(Val, "'") /\ ends_with(Val, "'") /\ Len(Val) >= 2
     THEN slice(Val, 1, Len(Val) - 1)
     ELSE Val

\* the condition under which `FullMsg += " "` runs
needsSpace(FullMsg, Piece) ==
  /\ FullMsg # ""
  /\ ~ends_with(FullMsg, " ")
  /\ Piece # ""
  /\ ~starts_with(Piece, " ")

\* a line end that is searched from the start of the record
lineEndFrom_mut_fromStart(Record, SearchStart) ==
  LET LineEnd == find(Record, "\n", 0)
  IN IF LineEnd = NPOS THEN Len(Record) ELSE LineEnd

\* the end of the line that starts at SearchStart
lineEndFrom(Record, SearchStart) ==
  LET LineEnd == find(Record, "\n", SearchStart)
  IN IF LineEnd = NPOS THEN Len(Record) ELSE LineEnd

RECURSIVE argsLoop(_, _, _, _)
\* the loop over the lines that follow "Args:"; returns FullMsg
argsLoop(Record, ArgsPos, SearchStart, FullMsg) ==
  IF ~(SearchStart < Len(Record)) THEN FullMsg
  ELSE
    LET LineEnd == lineEndFrom(Record, SearchStart)
        Line == slice(Record, SearchStart, LineEnd)
        ValPos == find(Line, ": ", 0)
    IN IF ~starts_with(trim(Line), "-") /\ trim(Line) # ""
            /\ SearchStart > ArgsPos + 6
       THEN FullMsg
       ELSE IF ValPos # NPOS
       THEN LET Piece == pieceOf(Line, ValPos)
            IN argsLoop(Record, ArgsPos, LineEnd + 1,
                        IF needsSpace(FullMsg, Piece)
                        THEN FullMsg \o " " \o Piece
                        ELSE FullMsg \o Piece)
       ELSE argsLoop(Record, ArgsPos, LineEnd + 1, FullMsg)

\* a default-constructed SourceLocation
NoLocation == [File |-> "", Line |-> 0, Column |-> 0]

\* the location the DebugLoc part of a record yields
recordLocation(Record) ==
  IF find(Record, "DebugLoc:", 0) = NPOS THEN NoLocation
  ELSE LET LineStr == extractField(Record, "Line:")
           ColStr == extractField(Record, "Column:")
       IN [ File |-> extractField(Record, "File:"),
            Line |-> IF LineStr # "" THEN stoulOr(LineStr, 0) ELSE 0,
            Column |-> IF ColStr # "" THEN stoulOr(ColStr, 0) ELSE 0 ]

\* the tag of a record decides its kind; "" stands for `continue`
recordKind(Record) ==
  IF starts_with(Record, "--- !Missed") THEN Missed
  ELSE IF starts_with(Record, "--- !Passed") THEN Applied
  ELSE IF starts_with(Record, "--- !Analysis") THEN Analysis
  ELSE ""

\* the Remark built from a record of a known tag
recordRemark(Record) ==
  LET ArgsPos == find(Record, "Args:", 0)
  IN [ Kind |-> recordKind(Record),
       PassName |-> extractField(Record, "Pass:"),
       RemarkName |-> extractField(Record, "Name:"),
       FunctionName |-> extractField(Record, "Function:"),
       Loc |-> recordLocation(Record),
       Message |-> IF ArgsPos # NPOS
                   THEN argsLoop(Record, ArgsPos, ArgsPos + 5, "")
                   ELSE "",
       Args |-> <<>> ]

\* the end of the record that starts at RecordStart
recordEnd(Content, RecordStart) ==
  LET NextRecord == find(Content, "\n---", RecordStart + 3)
  IN IF NextRecord = NPOS THEN Len(Content) ELSE NextRecord + 1

\* `if (!R.PassName.empty()) Remarks.push_back(...)`
keepsRemark(Rm) == Rm.PassName # ""

RECURSIVE recordLoop(_, _, _)
\* the loop over the records of the file
recordLoop(Content, Pos, Rms) ==
  IF ~(Pos < Len(Content)) THEN Rms
  ELSE
    LET RecordStart == find(Content, "---", Pos)
    IN IF RecordStart = NPOS THEN Rms
       ELSE
         LET RecordEnd == recordEnd(Content, RecordStart)
             Record == slice(Content, RecordStart, RecordEnd)
         IN IF recordKind(Record) = "" THEN recordLoop(Content, RecordEnd, Rms)
            ELSE IF keepsRemark(recordRemark(Record))
            THEN recordLoop(Content, RecordEnd,
                            Append(Rms, recordRemark(Record)))
            ELSE recordLoop(Content, RecordEnd, Rms)

\* PassAnalyzer::parseRemarksYAML on the content of a file that could be
\* opened
parseRemarksYAML(Content) == recordLoop(Content, 0, <<>>)

(***************************************************************************)
(* Inputs of the record-file parser.  A logical record is                  *)
(* [Tag, Pass, Name, Function, Loc, Args]: Pass, Name and Function are     *)
(* [Present, Value] (a field line may be missing), Loc is                  *)
(* [Present, File, Line, Column], Args is a list of [Key, Value, Quoted,   *)
(* HasLoc].  The file holds the records in the layout of an optimization   *)
(* record file: one `Key: Value` line per field, one `- Key: Value` item   *)
(* per argument, an item with a location carrying a DebugLoc line.         *)
(***************************************************************************)

\* the most Args items of a record
MaxPieces == 3

\* the most records of a file
MaxRecords == 2

\* a scalar as the record file writes it
RenderScalar(Value, Quoted) ==
  IF Quoted THEN "'" \o Value \o "'" ELSE Value

\* a `{ File: ..., Line: ..., Column: ... }` location
RenderLoc(Loc) ==
  "{ File: " \o Loc.File \o ", Line: " \o to_string(Loc.Line)
    \o ", Column: " \o to_string(Loc.Column) \o " }"

\* the location every argument with a location has
ArgLoc == [Present |-> TRUE, File |-> "a.c", Line |-> 2, Column |-> 1]

\* one item of the Args section
RenderArg(A) ==
  "  - " \o A.Key \o ": " \o RenderScalar(A.Value, A.Quoted) \o "\n"
    \o (IF A.HasLoc THEN "    DebugLoc: " \o RenderLoc(ArgLoc) \o "\n" ELSE "")

RECURSIVE RenderArgs(_)
RenderArgs(Args) ==
  IF Args = <<>> THEN "" ELSE RenderArg(Head(Args)) \o RenderArgs(Tail(Args))

\* a field line; a value is quoted when it is empty
RenderField(Name, F) ==
  IF F.Present THEN Name \o ": " \o RenderScalar(F.Value, F.Value = "") \o "\n"
  ELSE ""

\* one record of the file
RenderRecord(Rec) ==
  "--- !" \o Rec.Tag \o "\n"
    \o RenderField("Pass", Rec.Pass)
    \o RenderField("Name", Rec.Name)
    \o (IF Rec.Loc.Present THEN "DebugLoc: " \o RenderLoc(Rec.Loc) \o "\n"
        ELSE "")
    \o RenderField("Function", Rec.Function)
    \o "Args:\n" \o RenderArgs(Rec.Args)
    \o "...\n"

RECURSIVE RenderFile(_)
RenderFile(Recs) ==
  IF Recs = <<>> THEN "" ELSE RenderRecord(Head(Recs)) \o RenderFile(Tail(Recs))

Field(Value) == [Present |-> TRUE, Value |-> Value]
NoField == [Present |-> FALSE, Value |-> ""]
NoLoc == [Present |-> FALSE, File |-> "", Line |-> 0, Column |-> 0]

\* Args items: the two pieces of a vectorizer message, a callee with a
\* location, an unquoted word and an empty string
RecordArgPool ==
  { [Key |-> "String", Value |-> "loop not", Quoted |-> TRUE, HasLoc |-> FALSE],
    [Key |-> "String", Value |-> " vectorized", Quoted |-> TRUE, HasLoc |-> FALSE],
    [Key |-> "Callee", Value |-> "g", Quoted |-> FALSE, HasLoc |-> TRUE],
    [Key |-> "Cost", Value |-> "5", Quoted |-> FALSE, HasLoc |-> FALSE],
    [Key |-> "String", Value |-> "", Quoted |-> TRUE, HasLoc |-> FALSE] }

RecordArgLists == UNION {[1..N -> RecordArgPool] : N \in 0..MaxPieces}

\* a Missed record of the vectorizer with the given Args
VectorizerRecord(Args) ==
  [ Tag |-> "Missed", Pass |-> Field("loop-vectorize"),
    Name |-> Field("MissedDetails"), Function |-> Field("f"),
    Loc |-> NoLoc, Args |-> Args ]

\* a call of PassAnalyzer::parseRemarksYAML on a file that can be opened
Parse ==
  /\ ~parseDone
  /\ Parsed' = parseRemarksYAML(FileContent)
  /\ parseDone' = TRUE
  /\ UNCHANGED <<Records, FileContent, classifierVars, interpVars, differVars,
               collectorVars, sessionVars, alignVars,
               scanVars>>

\* files of one vectorizer record, over all Args lists
InitArgs ==
  /\ Records \in {<<VectorizerRecord(Args)>> : Args \in RecordArgLists}
  /\ FileContent = RenderFile(Records)
  /\ Parsed = <<>> /\ parseDone = FALSE
  /\ ClassifierAtRest /\ InterpAtRest /\ DifferAtRest /\ CollectorAtRest
  /\ SessionAtRest /\ AlignAtRest /\ ScanAtRest
NextArgs == Parse
SpecArgs == InitArgs /\ [][NextArgs]_vars

(***************************************************************************)
(* Properties of the record-file parser                                    *)
(***************************************************************************)

RECURSIVE JoinPieces(_, _)
\* the message the pieces give: one space goes between the text so far and
\* the next piece iff the text does not end with a space and the piece does
\* not start with one
JoinPieces(Acc, Args) ==
  IF Args = <<>> THEN Acc
  ELSE LET Piece == Head(Args).Value
       IN JoinPieces(IF Acc # "" /\ ~ends_with(Acc, " ")
                          /\ ~starts_with(Piece, " ")
                       THEN Acc \o " " \o Piece
                       ELSE Acc \o Piece,
                     Tail(Args))

\* C15: the message of a parsed record is the concatenation of the values
\* of its Args items in order, with one space between the text accumulated
\* so far and the next piece iff the text does not end with a space and the
\* piece does not start with one.
C15_MessageJoinsArgs ==
  parseDone =>
    /\ Len(Parsed) = 1
    /\ Parsed[1].Message = JoinPieces("", Records[1].Args)

\* the tags of the records: the three the parser knows and one it does not
RecordTags == {"Missed", "Passed", "Analysis", "Failure"}

\* the Pass field: missing, empty, or a pass name
PassFields == {NoField, Field(""), Field("inline")}

\* the rest of a record: all fields present; no optional field present; no
\* location of the record itself but one inside an Args item
RecordShapes ==
  { [ Name |-> Field("NotInlined"), Function |-> Field("f"),
      Loc |-> [Present |-> TRUE, File |-> "b.c", Line |-> 3, Column |-> 5],
      Args |-> << [Key |-> "Callee", Value |-> "g", Quoted |-> FALSE,
                   HasLoc |-> TRUE],
                  [Key |-> "String", Value |-> " not inlined", Quoted |-> TRUE,
                   HasLoc |-> FALSE] >> ],
    [ Name |-> NoField, Function |-> NoField, Loc |-> NoLoc, Args |-> <<>> ],
    [ Name |-> Field("NotInlined"), Function |-> Field("f"), Loc |-> NoLoc,
      Args |-> << [Key |-> "Callee", Value |-> "g", Quoted |-> FALSE,
                   HasLoc |-> TRUE] >> ] }

RecordPool ==
  { [ Tag |-> Tag, Pass |-> Pass, Name |-> Shape.Name,
      Function |-> Shape.Function, Loc |-> Shape.Loc, Args |-> Shape.Args ] :
      Tag \in RecordTags, Pass \in PassFields, Shape \in RecordShapes }

RecordLists == UNION {[1..N -> RecordPool] : N \in 0..MaxRecords}

\* files of up to MaxRecords records
InitRecords ==
  /\ Records \in RecordLists
  /\ FileContent = RenderFile(Records)
  /\ Parsed = <<>> /\ parseDone = FALSE
  /\ ClassifierAtRest /\ InterpAtRest /\ DifferAtRest /\ CollectorAtRest
  /\ SessionAtRest /\ AlignAtRest /\ ScanAtRest
NextRecords == Parse
SpecRecords == InitRecords /\ [][NextRecords]_vars

\* the kind a tag stands for
KindOfTag(Tag) ==
  IF Tag = "Missed" THEN Missed
  ELSE IF Tag = "Passed" THEN Applied
  ELSE Analysis

\* the records that must yield a remark: those of a known tag whose Pass
\* field is not empty
YieldsRemark(Rec) ==
  Rec.Tag \in {"Missed", "Passed", "Analysis"} /\ Rec.Pass.Value # ""

RECURSIVE SelectRecords(_)
\* the records that yield a remark, in file order
SelectRecords(Recs) ==
  IF Recs = <<>> THEN <<>>
  ELSE IF YieldsRemark(Head(Recs))
       THEN <<Head(Recs)>> \o SelectRecords(Tail(Recs))
       ELSE SelectRecords(Tail(Recs))

\* the remark Rm is the remark of the record Rec as far as the fields the
\* record has go, and has the default in every field the record lacks
RemarkOfRecord(Rm, Rec) ==
  /\ Rm.Kind = KindOfTag(Rec.Tag)
  /\ Rm.PassName = Rec.Pass.Value
  /\ Rm.RemarkName = Rec.Name.Value
  /\ Rm.FunctionName = Rec.Function.Value
  /\ ~Rec.Loc.Present => Rm.Loc = NoLocation
  /\ Rec.Args = <<>> => Rm.Message = ""
  /\ Rm.Args = <<>>

\* C16: a record is left out of the returned list iff its Pass field is
\* empty (a record of an unknown tag is skipped as well); every other record
\* yields exactly one Remark whose missing fields are the empty string or
\* zero, and the remarks are in the order of their records.
C16_OneRemarkPerRecordWithPass ==
  parseDone =>
    /\ Len(Parsed) = Len(SelectRecords(Records))
    /\ \A K \in 1..Len(Parsed) :
         RemarkOfRecord(Parsed[K], SelectRecords(Records)[K])

\* ---------------------------------------------------------------------
\* The live collector (RemarkCollectorHandler)
\* ---------------------------------------------------------------------

\* the diagnostic kinds of the optimization remarks
OptRemarkKinds ==
  { "DK_OptimizationRemark", "DK_OptimizationRemarkMissed",
    "DK_OptimizationRemarkAnalysis", "DK_OptimizationRemarkAnalysisAliasing",
    "DK_OptimizationRemarkAnalysisFPCommute",
    "DK_MachineOptimizationRemark", "DK_MachineOptimizationRemarkMissed",
    "DK_MachineOptimizationRemarkAnalysis" }

\* the kinds from DK_MachineOptimizationRemark to
\* DK_MachineOptimizationRemarkAnalysis
MachineRemarkKinds ==
  { "DK_MachineOptimizationRemark", "DK_MachineOptimizationRemarkMissed",
    "DK_MachineOptimizationRemarkAnalysis" }

ResourceLimitKinds == {"DK_ResourceLimit", "DK_StackSize"}

\* kinds the handler does not name
OtherKinds == {"DK_OptimizationFailure", "DK_InlineAsm"}

\* dyn_cast<DiagnosticInfoOptimizationBase> succeeds: the remark kinds,
\* DK_OptimizationFailure among them
isOptimizationBase(DI) ==
  DI.Kind \in OptRemarkKinds \cup {"DK_OptimizationFailure"}

\* dyn_cast<DiagnosticInfoResourceLimit> succeeds
isResourceLimit(DI) == DI.Kind \in ResourceLimitKinds

\* a diagnostic location that is not valid
InvalidLoc == [Present |-> FALSE, File |-> "", Line |-> 0, Column |-> 0]

convertLocation(Loc) ==
  IF Loc.Present
  THEN [File |-> Loc.File, Line |-> Loc.Line, Column |-> Loc.Column]
  ELSE NoLocation

\* DiagnosticInfoWithLocationBase::getLocationStr
getLocationStr(DI) ==
  IF DI.Loc.Present
  THEN DI.Loc.File \o ":" \o to_string(DI.Loc.Line) \o ":"
         \o to_string(DI.Loc.Column)
  ELSE "<unknown>:0:0"

RECURSIVE getMsg(_)
\* DiagnosticInfoOptimizationBase::getMsg: the argument values, concatenated
getMsg(Args) ==
  IF Args = <<>> THEN "" ELSE Head(Args).Val \o getMsg(Tail(Args))

\* DiagnosticInfoOptimizationBase::print
printOptimization(DI) ==
  getLocationStr(DI) \o ": " \o getMsg(DI.Args)
    \o (IF DI.Hotness.Present
        THEN " (hotness: " \o to_string(DI.Hotness.Value) \o ")" ELSE "")

\* DiagnosticInfoResourceLimit::print
printResourceLimit(DI) ==
  getLocationStr(DI) \o ": " \o DI.ResourceName \o " ("
    \o to_string(DI.ResourceSize) \o ") exceeds limit ("
    \o to_string(DI.ResourceLimit) \o ") in function '"
    \o DI.FunctionName \o "'"

\* the printed diagnostic from the first non-blank after its first colon
buildMessage(DI) ==
  LET Msg == printOptimization(DI)
      Colon == find(Msg, ":", 0)
      Pos == IF Colon = NPOS THEN NPOS
             ELSE find_first_not_of_space(Msg, Colon + 1)
  IN IF Pos # NPOS THEN slice(Msg, Pos, NPOS) ELSE Msg

\* the RemarkKind of an optimization diagnostic
convertKind(Kind) ==
  IF Kind \in {"DK_OptimizationRemark", "DK_MachineOptimizationRemark"}
  THEN Applied
  ELSE IF Kind \in {"DK_OptimizationRemarkMissed",
                    "DK_MachineOptimizationRemarkMissed"}
  THEN Missed
  ELSE IF Kind \in {"DK_OptimizationRemarkAnalysis",
                    "DK_MachineOptimizationRemarkAnalysis"}
  THEN Analysis
  ELSE IF Kind = "DK_OptimizationRemarkAnalysisAliasing"
  THEN AnalysisAliasing
  ELSE IF Kind = "DK_OptimizationRemarkAnalysisFPCommute"
  THEN AnalysisFPCommute
  ELSE Analysis

\* one RemarkArgument of an optimization diagnostic
convertArgument(Arg) ==
  [ Key |-> Arg.Key, Value |-> Arg.Val,
    Loc |-> IF Arg.Loc.Present THEN convertLocation(Arg.Loc)
            ELSE NoLocation ]

\* convertRemark(const DiagnosticInfoOptimizationBase &)
convertRemark(DI) ==
  [ Kind |-> convertKind(DI.Kind),
    IsMachine |-> DI.Kind \in MachineRemarkKinds,
    PassName |-> DI.PassName,
    RemarkName |-> DI.RemarkName,
    FunctionName |-> DI.FunctionName,
    Loc |-> convertLocation(DI.Loc),
    Message |-> buildMessage(DI),
    Args |-> [I \in 1..Len(DI.Args) |-> convertArgument(DI.Args[I])],
    Hotness |-> DI.Hotness ]

NoHotness == [Present |-> FALSE, Value |-> 0]

\* convertRemark(const DiagnosticInfoResourceLimit &)
convertResourceLimit(DI) ==
  [ Kind |-> Analysis,
    IsMachine |-> TRUE,
    PassName |-> "backend",
    RemarkName |-> DI.ResourceName,
    FunctionName |-> DI.FunctionName,
    Loc |-> NoLocation,
    Message |-> printResourceLimit(DI),
    Args |-> << [Key |-> "Size", Value |-> to_string(DI.ResourceSize),
                 Loc |-> NoLocation],
                [Key |-> "Limit", Value |-> to_string(DI.ResourceLimit),
                 Loc |-> NoLocation] >>,
    Hotness |-> NoHotness ]

\* handleDiagnostics claims the diagnostic
isClaimed(DI) ==
  /\ DI.Kind \in OptRemarkKinds \cup ResourceLimitKinds
  /\ isOptimizationBase(DI) \/ isResourceLimit(DI)

\* the Remark R of handleDiagnostics for a claimed diagnostic
convertedRemark(DI) ==
  IF isOptimizationBase(DI) THEN convertRemark(DI)
  ELSE convertResourceLimit(DI)

\* handleDiagnostics up to the lock: the kind filter and the conversion
Handle(T) ==
  /\ pc[T] = Idle
  /\ next[T] < Len(Emits[T])
  /\ next' = [next EXCEPT ![T] = @ + 1]
  /\ LET DI == Emits[T][next[T] + 1]
     IN IF isClaimed(DI)
        THEN /\ Local' = [Local EXCEPT ![T] = convertedRemark(DI)]
             /\ pc' = [pc EXCEPT ![T] = "lock"]
             /\ UNCHANGED Returned
        ELSE /\ Returned' = [Returned EXCEPT ![T] = Append(@, FALSE)]
             /\ UNCHANGED <<Local, pc>>
  /\ UNCHANGED <<Emits, EndPos, CollectedRemarks, Mutex>>
  /\ UNCHANGED <<classifierVars, interpVars, differVars, parserVars,
               sessionVars, alignVars,
               scanVars>>

\* the mutex admits the caller
canLock_mut_always(T) == TRUE

canLock(T) == Mutex = 0

\* std::lock_guard<std::mutex> Guard(Mutex)
Acquire(T) ==
  /\ pc[T] = "lock"
  /\ canLock(T)
  /\ Mutex' = T
  /\ pc' = [pc EXCEPT ![T] = "push"]
  /\ UNCHANGED <<Emits, next, Local, EndPos, CollectedRemarks, Returned>>
  /\ UNCHANGED <<classifierVars, interpVars, differVars, parserVars,
               sessionVars, alignVars,
               scanVars>>

\* push_back reads the end of the vector
PushBegin(T) ==
  /\ pc[T] = "push"
  /\ EndPos' = [EndPos EXCEPT ![T] = Len(CollectedRemarks)]
  /\ pc' = [pc EXCEPT ![T] = "write"]
  /\ UNCHANGED <<Emits, next, Local, CollectedRemarks, Mutex, Returned>>
  /\ UNCHANGED <<classifierVars, interpVars, differVars, parserVars,
               sessionVars, alignVars,
               scanVars>>

\* push_back stores the remark at the end it has read and moves the end
\* behind it; the guard is released and the call returns true
PushEnd(T) ==
  /\ pc[T] = "write"
  /\ CollectedRemarks' =
       [I \in 1..(EndPos[T] + 1) |->
          IF I = EndPos[T] + 1 THEN Local[T] ELSE CollectedRemarks[I]]
  /\ Mutex' = IF Mutex = T THEN 0 ELSE Mutex
  /\ Returned' = [Returned EXCEPT ![T] = Append(@, TRUE)]
  /\ pc' = [pc EXCEPT ![T] = Idle]
  /\ UNCHANGED <<Emits, next, Local, EndPos>>
  /\ UNCHANGED <<classifierVars, interpVars, differVars, parserVars,
               sessionVars, alignVars,
               scanVars>>

\* ---------------------------------------------------------------------
\* One optimization event seen by the collector and read back from its
\* persisted record
\* ---------------------------------------------------------------------

\* the tag the record of a diagnostic is written with
TagOfKind(Kind) ==
  IF Kind \in {"DK_OptimizationRemark", "DK_MachineOptimizationRemark"}
  THEN "Passed"
  ELSE IF Kind \in {"DK_OptimizationRemarkMissed",
                    "DK_MachineOptimizationRemarkMissed"}
  THEN "Missed"
  ELSE IF Kind \in {"DK_OptimizationRemarkAnalysis",
                    "DK_MachineOptimizationRemarkAnalysis"}
  THEN "Analysis"
  ELSE IF Kind = "DK_OptimizationRemarkAnalysisAliasing"
  THEN "AnalysisAliasing"
  ELSE IF Kind = "DK_OptimizationRemarkAnalysisFPCommute"
  THEN "AnalysisFPCommute"
  ELSE "Failure"

\* a scalar is written in quotes when it is empty or begins or ends with
\* a blank
needsQuotes(Value) ==
  \/ Value = ""
  \/ starts_with(Value, " ")
  \/ ends_with(Value, " ")

\* the persisted record of an optimization diagnostic
RecordOfDiagnostic(DI) ==
  [ Tag |-> TagOfKind(DI.Kind),
    Pass |-> Field(DI.PassName),
    Name |-> Field(DI.RemarkName),
    Loc |-> DI.Loc,
    Function |-> Field(DI.FunctionName),
    Args |-> [I \in 1..Len(DI.Args) |->
                [ Key |-> DI.Args[I].Key, Value |-> DI.Args[I].Val,
                  Quoted |-> needsQuotes(DI.Args[I].Val),
                  HasLoc |-> DI.Args[I].Loc.Present ]] ]

\* the arguments of the events: two message pieces and a callee with a
\* location
EventArgPool ==
  { [Key |-> "String", Val |-> "loop", Loc |-> InvalidLoc],
    [Key |-> "String", Val |-> " vectorized", Loc |-> InvalidLoc],
    [Key |-> "Callee", Val |-> "g", Loc |-> ArgLoc] }

EventArgLists == UNION {[1..N -> EventArgPool] : N \in 0..MaxPieces}

EventLocs ==
  {InvalidLoc, [Present |-> TRUE, File |-> "b.c", Line |-> 3, Column |-> 5]}

\* an optimization diagnostic of function f
OptimizationDiagnostic(Kind, RemarkName, Loc, Args) ==
  [ Kind |-> Kind, PassName |-> "loop-vectorize", RemarkName |-> RemarkName,
    FunctionName |-> "f", Loc |-> Loc, Args |-> Args, Hotness |-> NoHotness,
    ResourceName |-> "", ResourceSize |-> 0, ResourceLimit |-> 0 ]

EventPool ==
  { OptimizationDiagnostic(Kind, "MissedDetails", Loc, Args) :
      Kind \in OptRemarkKinds, Loc \in EventLocs, Args \in EventArgLists }

\* thread 1 emits the event; its record is the file the parser reads
InitEvent ==
  /\ \E DI \in EventPool :
       /\ Emits = [T \in Threads |-> IF T = 1 THEN <<DI>> ELSE <<>>]
       /\ Records = <<RecordOfDiagnostic(DI)>>
  /\ FileContent = RenderFile(Records)
  /\ Parsed = <<>> /\ parseDone = FALSE
  /\ pc = [T \in Threads |-> Idle]
  /\ next = [T \in Threads |-> 0]
  /\ Local = [T \in Threads |-> <<>>]
  /\ EndPos = [T \in Threads |-> 0]
  /\ CollectedRemarks = <<>> /\ Mutex = 0
  /\ Returned = [T \in Threads |-> <<>>]
  /\ ClassifierAtRest /\ InterpAtRest /\ DifferAtRest /\ SessionAtRest /\ AlignAtRest /\ ScanAtRest
NextEvent ==
  \/ Parse
  \/ \E T \in Threads : Handle(T)
  \/ \E T \in Threads : Acquire(T)
  \/ \E T \in Threads : PushBegin(T)
  \/ \E T \in Threads : PushEnd(T)
SpecEvent == InitEvent /\ [][NextEvent]_vars

\* both sources have delivered the event
EventDelivered == parseDone /\ Returned[1] # <<>>

\* C17: for one optimization event, the Remark the record parser produces
\* from the persisted record equals the Remark the live collector produces
\* from the diagnostic in kind, pass name, remark name, function name,
\* location, message and the ordered argument list
C17_ParserEqualsCollector ==
  EventDelivered =>
    /\ Len(Parsed) = 1 /\ Len(CollectedRemarks) = 1
    /\ Parsed[1].Kind = CollectedRemarks[1].Kind
    /\ Parsed[1].PassName = CollectedRemarks[1].PassName
    /\ Parsed[1].RemarkName = CollectedRemarks[1].RemarkName
    /\ Parsed[1].FunctionName = CollectedRemarks[1].FunctionName
    /\ Parsed[1].Loc = CollectedRemarks[1].Loc
    /\ Parsed[1].Message = CollectedRemarks[1].Message
    /\ Parsed[1].Args = CollectedRemarks[1].Args

\* ---------------------------------------------------------------------
\* handleDiagnostics called from several threads
\* ---------------------------------------------------------------------

\* the most diagnostics one thread emits
MaxEmits == 2

\* the kinds the threads emit, in turn: a remark, a resource-limit notice
\* and a kind the handler does not claim
KindCycle ==
  <<"DK_OptimizationRemarkMissed", "DK_StackSize", "DK_InlineAsm">>

\* the function the I-th diagnostic of thread T is about
EmittingFunction(T, I) == "f" \o to_string(T) \o "_" \o to_string(I)

\* the I-th diagnostic of thread T
EmittedDiagnostic(T, I, Offset) ==
  [ Kind |-> KindCycle[((T + I + Offset) % Len(KindCycle)) + 1],
    PassName |-> "inline", RemarkName |-> "NotInlined",
    FunctionName |-> EmittingFunction(T, I),
    Loc |-> InvalidLoc,
    Args |-> << [Key |-> "Callee", Val |-> "g", Loc |-> InvalidLoc] >>,
    Hotness |-> NoHotness,
    ResourceName |-> "stack frame size", ResourceSize |-> 9,
    ResourceLimit |-> 8 ]

\* every thread emits up to MaxEmits diagnostics
InitCollect ==
  /\ \E Count \in [Threads -> 0..MaxEmits], Offset \in 0..(Len(KindCycle) - 1) :
       Emits = [T \in Threads |->
                  [I \in 1..Count[T] |-> EmittedDiagnostic(T, I, Offset)]]
  /\ pc = [T \in Threads |-> Idle]
  /\ next = [T \in Threads |-> 0]
  /\ Local = [T \in Threads |-> <<>>]
  /\ EndPos = [T \in Threads |-> 0]
  /\ CollectedRemarks = <<>> /\ Mutex = 0
  /\ Returned = [T \in Threads |-> <<>>]
  /\ ClassifierAtRest /\ InterpAtRest /\ DifferAtRest /\ ParserAtRest
  /\ SessionAtRest /\ AlignAtRest /\ ScanAtRest
NextCollect ==
  \/ \E T \in Threads : Handle(T)
  \/ \E T \in Threads : Acquire(T)
  \/ \E T \in Threads : PushBegin(T)
  \/ \E T \in Threads : PushEnd(T)
SpecCollect == InitCollect /\ [][NextCollect]_vars

\* the diagnostics of thread T whose calls have returned
HandledOf(T) == SubSeq(Emits[T], 1, Len(Returned[T]))

MustClaim(DI) == DI.Kind \in OptRemarkKinds \cup ResourceLimitKinds

RemarkOf(DI) ==
  IF DI.Kind \in OptRemarkKinds THEN convertRemark(DI)
  ELSE convertResourceLimit(DI)

\* the remarks the returned calls of thread T had to append, in emission order
ExpectedOf(T) ==
  LET Claimed == SelectSeq(HandledOf(T), MustClaim)
  IN [I \in 1..Len(Claimed) |-> RemarkOf(Claimed[I])]

\* a remark of the list stems from a diagnostic of thread T
StemsFrom(Rm, T) ==
  \E I \in 1..Len(Emits[T]) :
     MustClaim(Emits[T][I]) /\ Rm = RemarkOf(Emits[T][I])

\* the remarks of the list that stem from thread T, in list order
CollectedOf(T) ==
  SelectSeq(CollectedRemarks, LAMBDA Rm : StemsFrom(Rm, T))

\* C18: under concurrent calls of handleDiagnostics every diagnostic that
\* is an optimization remark or a resource-limit notice is appended to the
\* remark list exactly once, a diagnostic of another kind is not appended
\* and is reported as unclaimed, and the remarks of one thread are in the
\* list in the order the thread emitted them
C18_AppendsAreSerialized ==
  /\ \A T \in Threads :
       /\ CollectedOf(T) = ExpectedOf(T)
       /\ \A I \in 1..Len(Returned[T]) :
            Returned[T][I] = MustClaim(Emits[T][I])
  /\ \A P \in 1..Len(CollectedRemarks) :
       \E T \in Threads : StemsFrom(CollectedRemarks[P], T)

\* all calls have returned; a remark of thread 1 lies between two remarks
\* of thread 2, and thread 1 had a diagnostic left unclaimed
C18_Witness ==
  /\ \A T \in Threads : Len(Returned[T]) = Len(Emits[T])
  /\ Len(CollectedRemarks) = 3
  /\ StemsFrom(CollectedRemarks[1], 2)
  /\ StemsFrom(CollectedRemarks[2], 1)
  /\ StemsFrom(CollectedRemarks[3], 2)
  /\ \E I \in 1..Len(Returned[1]) : ~Returned[1][I]

\* ---------------------------------------------------------------------
\* The session flows: runFromFile, runFromIR, runFromBeforeAfter,
\* runFromModules
\* ---------------------------------------------------------------------

Flows == {"runFromFile", "runFromIR", "runFromBeforeAfter"}

\* which steps of a flow succeed, and whether a remarks file is given and
\* Config.VerifyEachPass is set
Fates ==
  [ ParseBeforeOk : BOOLEAN, ParseAfterOk : BOOLEAN, RemarksGiven : BOOLEAN,
    RemarksOk : BOOLEAN, VerifyOk : BOOLEAN, CloneOk : BOOLEAN,
    VerifyEachPass : BOOLEAN, AfterVerifyOk : BOOLEAN ]

\* a caller of runFromModules passes null pointers or modules
ModuleFates == [BeforeNull : BOOLEAN, AfterNull : BOOLEAN]

\* AnalysisConfig: pipeline descriptions and the optimization level
Configs ==
  [ PassPipeline : {"", "instcombine,simplifycfg,adce", "instcombine",
                    "function(adce),simplifycfg", "mem2reg"},
    OptLevel : {"O2"} ]

\* the members of AnalysisSession that own a context or a module, in
\* declaration order
SessionMembers_mut_contextsLast == <<"BeforeModule", "AfterModule", "Contexts">>

SessionMembers == <<"Contexts", "BeforeModule", "AfterModule">>

\* a sequence without the entries of Gone
Without(Owned, Gone) == SelectSeq(Owned, LAMBDA X : X \notin Gone)

\* the destructor of what a local or a member owns
destroyContext(C) == [CtxState EXCEPT ![C] = "destroyed"]
destroyModule(M) == [ModState EXCEPT ![M] = "destroyed"]

\* StringRef::contains
contains(Str, Needle) == find(Str, Needle, 0) # NPOS

\* the passes runPassPipeline adds to the function pass manager
pipelinePasses(Cfg) ==
  IF Cfg.PassPipeline # ""
  THEN (IF contains(Cfg.PassPipeline, "instcombine") THEN <<"instcombine">>
        ELSE <<>>)
       \o (IF contains(Cfg.PassPipeline, "simplifycfg") THEN <<"simplifycfg">>
           ELSE <<>>)
       \o (IF contains(Cfg.PassPipeline, "adce") THEN <<"adce">> ELSE <<>>)
  ELSE <<"instcombine", "simplifycfg", "adce">>

\* the errors of the flows
ParseError == "Failed to parse IR"
NullInputError == "Null input module"
VerifyError == "Module verification failed"
CloneError == "Failed to clone module for analysis"
RemarksError == "Cannot open remarks file"
NullModuleError == "Null module passed to runFromModules"

\* where a flow goes when a verification has failed
afterFailedVerification_mut_goesOn(Goal) == Goal

afterFailedVerification(Goal) == "unwind"

\* where a flow goes when parsing, cloning, the remarks file or a null
\* check has failed
afterFailure_mut_goesOn(Goal) == Goal

afterFailure(Goal) == "unwind"

\* auto Ctx = std::make_unique<LLVMContext>(), once or twice
CreateContexts ==
  /\ spc = "start"
  /\ Flow # "runFromModules"
  /\ LET Made == IF Flow = "runFromBeforeAfter" THEN {1, 2} ELSE {1}
     IN /\ CtxState' = [C \in ContextIds |->
                          IF C \in Made THEN "alive" ELSE CtxState[C]]
        /\ Locals' = IF Flow = "runFromBeforeAfter" THEN <<"Ctx1", "Ctx2">>
                     ELSE <<"Ctx1">>
  /\ spc' = "parseBefore"
  /\ UNCHANGED <<Flow, Fate, ModState, ModCtx, SessionContexts,
                 SessionModules, Dropped, Config, Calls, Session, Passes,
                 Error>>
  /\ UNCHANGED <<classifierVars, interpVars, differVars, parserVars,
                 collectorVars, alignVars,
               scanVars>>

\* a caller of runFromModules hands over two modules, each null or parsed
\* into a context of the caller
PassModules ==
  /\ spc = "start"
  /\ Flow = "runFromModules"
  /\ CtxState' = [C \in ContextIds |-> "alive"]
  /\ ModState' = [M \in ModuleIds |->
                    IF (M = "before" /\ Fate.BeforeNull)
                       \/ (M = "after" /\ Fate.AfterNull)
                    THEN "none" ELSE "alive"]
  /\ ModCtx' = [M \in ModuleIds |->
                  IF ModState'[M] = "alive"
                  THEN (IF M = "before" THEN 1 ELSE 2) ELSE 0]
  /\ Locals' = (IF Fate.BeforeNull THEN <<>> ELSE <<"before">>)
                 \o (IF Fate.AfterNull THEN <<>> ELSE <<"after">>)
  /\ spc' = "nullcheck"
  /\ UNCHANGED <<Flow, Fate, SessionContexts, SessionModules, Dropped,
                 Config, Calls, Session, Passes, Error>>
  /\ UNCHANGED <<classifierVars, interpVars, differVars, parserVars,
                 collectorVars, alignVars,
               scanVars>>

\* parseIRFromFile / parseIRFromString into the first context
ParseBefore ==
  /\ spc = "parseBefore"
  /\ Calls' = Append(Calls, "parseIR")
  /\ IF Fate.ParseBeforeOk
     THEN /\ ModState' = [ModState EXCEPT !["before"] = "alive"]
          /\ ModCtx' = [ModCtx EXCEPT !["before"] = 1]
          /\ Locals' = Append(Locals, "before")
          /\ spc' = IF Flow = "runFromBeforeAfter" THEN "parseAfter"
                    ELSE "verify"
          /\ UNCHANGED Error
     ELSE /\ spc' = afterFailure(IF Flow = "runFromBeforeAfter"
                                 THEN "remarks" ELSE "finish")
          /\ Error' = ParseError
          /\ UNCHANGED <<ModState, ModCtx, Locals>>
  /\ UNCHANGED <<Flow, Fate, CtxState, SessionContexts, SessionModules,
                 Dropped, Config, Session, Passes>>
  /\ UNCHANGED <<classifierVars, interpVars, differVars, parserVars,
                 collectorVars, alignVars,
               scanVars>>

\* runFromBeforeAfter: parseIRFromFile(AfterPath, *AfterCtx)
ParseAfter ==
  /\ spc = "parseAfter"
  /\ Calls' = Append(Calls, "parseIR")
  /\ IF Fate.ParseAfterOk
     THEN /\ ModState' = [ModState EXCEPT !["after"] = "alive"]
          /\ ModCtx' = [ModCtx EXCEPT !["after"] = 2]
          /\ Locals' = Append(Locals, "after")
          /\ spc' = "remarks"
          /\ UNCHANGED Error
     ELSE /\ spc' = afterFailure("remarks")
          /\ Error' = ParseError
          /\ UNCHANGED <<ModState, ModCtx, Locals>>
  /\ UNCHANGED <<Flow, Fate, CtxState, SessionContexts, SessionModules,
                 Dropped, Config, Session, Passes>>
  /\ UNCHANGED <<classifierVars, interpVars, differVars, parserVars,
                 collectorVars, alignVars,
               scanVars>>

\* runFromBeforeAfter: the remarks file, when one is given
ReadRemarks ==
  /\ spc = "remarks"
  /\ Calls' = IF Fate.RemarksGiven THEN Append(Calls, "parseRemarksYAML")
              ELSE Calls
  /\ IF Fate.RemarksGiven /\ ~Fate.RemarksOk
     THEN /\ spc' = afterFailure("nullcheck")
          /\ Error' = RemarksError
     ELSE /\ spc' = "nullcheck"
          /\ UNCHANGED Error
  /\ UNCHANGED <<Flow, Fate, CtxState, ModState, ModCtx, Locals,
                 SessionContexts, SessionModules, Dropped, Config, Session,
                 Passes>>
  /\ UNCHANGED <<classifierVars, interpVars, differVars, parserVars,
                 collectorVars, alignVars,
               scanVars>>

\* runFromModules: if (!Before || !After)
NullCheck ==
  /\ spc = "nullcheck"
  /\ IF \E M \in ModuleIds : ModState[M] # "alive"
     THEN /\ spc' = afterFailure("finish")
          /\ Error' = NullModuleError
     ELSE /\ spc' = "finish"
          /\ UNCHANGED Error
  /\ UNCHANGED <<Flow, Fate, CtxState, ModState, ModCtx, Locals,
                 SessionContexts, SessionModules, Dropped, Config, Calls,
                 Session, Passes>>
  /\ UNCHANGED <<classifierVars, interpVars, differVars, parserVars,
                 collectorVars, alignVars,
               scanVars>>

\* executeAnalysis: the null check, the block names and verifyModule; then
\* the session is declared and gets the pipeline name and the before text
Verify ==
  /\ spc = "verify"
  /\ IF ModState["before"] # "alive"
     THEN /\ spc' = afterFailure("clone")
          /\ Error' = NullInputError
          /\ UNCHANGED <<Calls, Session, Locals>>
     ELSE /\ Calls' = Append(Calls, "verifyModule")
          /\ IF Fate.VerifyOk
             THEN /\ spc' = "clone"
                  /\ UNCHANGED Error
             ELSE /\ spc' = afterFailedVerification("clone")
                  /\ Error' = VerifyError
          /\ IF spc' = "clone"
             THEN /\ Session' =
                       [Session EXCEPT
                          !.PassPipelineUsed =
                             IF Config.PassPipeline = ""
                             THEN "default-" \o Config.OptLevel
                             ELSE Config.PassPipeline,
                          !.BeforeIR = TRUE]
                  /\ Locals' = Append(Locals, "Session")
             ELSE UNCHANGED <<Session, Locals>>
  /\ UNCHANGED <<Flow, Fate, CtxState, ModState, ModCtx, SessionContexts,
                 SessionModules, Dropped, Config, Passes>>
  /\ UNCHANGED <<classifierVars, interpVars, differVars, parserVars,
                 collectorVars, alignVars,
               scanVars>>

\* executeAnalysis: CloneModule makes the after module in the context of
\* the before module
Clone ==
  /\ spc = "clone"
  /\ Calls' = Append(Calls, "CloneModule")
  /\ IF Fate.CloneOk
     THEN /\ ModState' = [ModState EXCEPT !["after"] = "alive"]
          /\ ModCtx' = [ModCtx EXCEPT !["after"] = ModCtx["before"]]
          /\ Locals' = Append(Locals, "after")
          /\ spc' = "pipeline"
          /\ UNCHANGED Error
     ELSE /\ spc' = afterFailure("finish")
          /\ Error' = CloneError
          /\ UNCHANGED <<ModState, ModCtx, Locals>>
  /\ UNCHANGED <<Flow, Fate, CtxState, SessionContexts, SessionModules,
                 Dropped, Config, Session, Passes>>
  /\ UNCHANGED <<classifierVars, interpVars, differVars, parserVars,
                 collectorVars, alignVars,
               scanVars>>

\* executeAnalysis: runPassPipeline and the verification of its result
RunPipeline ==
  /\ spc = "pipeline"
  /\ Passes' = pipelinePasses(Config)
  /\ IF Fate.VerifyEachPass
     THEN /\ Calls' = Calls \o <<"runPassPipeline", "verifyModule">>
          /\ IF Fate.AfterVerifyOk
             THEN /\ spc' = "finish"
                  /\ UNCHANGED <<Session, Error>>
             ELSE /\ Session' = [Session EXCEPT !.VerificationFailed = TRUE]
                  /\ Error' = VerifyError
                  /\ spc' = afterFailedVerification("finish")
     ELSE /\ Calls' = Append(Calls, "runPassPipeline")
          /\ spc' = "finish"
          /\ UNCHANGED <<Session, Error>>
  /\ UNCHANGED <<Flow, Fate, CtxState, ModState, ModCtx, Locals,
                 SessionContexts, SessionModules, Dropped, Config>>
  /\ UNCHANGED <<classifierVars, interpVars, differVars, parserVars,
                 collectorVars, alignVars,
               scanVars>>

\* the end of executeAnalysis and of runFromModules: the texts, the
\* remarks, the diff and the diagnostics are stored and both modules are
\* moved into the session
FinishSession ==
  /\ spc = "finish"
  /\ Calls' = Calls
                \o (IF Flow \in {"runFromFile", "runFromIR"}
                    THEN <<"getRemarks">> ELSE <<>>)
                \o <<"diff", "analyze">>
  /\ Session' = [Session EXCEPT !.BeforeIR = TRUE, !.AfterIR = TRUE,
                                !.Remarks = TRUE, !.Diff = TRUE,
                                !.Diagnostics = TRUE]
  /\ SessionModules' = {M \in ModuleIds : ModState[M] = "alive"}
  /\ Locals' = Without(Locals, {"before", "after", "Session"})
  /\ spc' = IF Flow = "runFromModules" THEN "held" ELSE "push"
  /\ UNCHANGED <<Flow, Fate, CtxState, ModState, ModCtx, SessionContexts,
                 Dropped, Config, Passes, Error>>
  /\ UNCHANGED <<classifierVars, interpVars, differVars, parserVars,
                 collectorVars, alignVars,
               scanVars>>

\* SessionOrErr->Contexts.push_back(std::move(Ctx)), for every context of
\* the flow, and the return of the session
PushContexts ==
  /\ spc = "push"
  /\ SessionContexts' = IF Flow = "runFromBeforeAfter" THEN <<1, 2>>
                        ELSE <<1>>
  /\ Locals' = Without(Locals, {"Ctx1", "Ctx2"})
  /\ spc' = "held"
  /\ UNCHANGED <<Flow, Fate, CtxState, ModState, ModCtx, SessionModules,
                 Dropped, Config, Calls, Session, Passes, Error>>
  /\ UNCHANGED <<classifierVars, interpVars, differVars, parserVars,
                 collectorVars, alignVars,
               scanVars>>

\* a failing flow returns: its locals are destroyed, the last declared first
Unwind ==
  /\ spc = "unwind"
  /\ IF Locals = <<>>
     THEN /\ spc' = "failed"
          /\ UNCHANGED <<CtxState, ModState, Locals, Session>>
     ELSE LET Top == Locals[Len(Locals)]
          IN /\ Locals' = SubSeq(Locals, 1, Len(Locals) - 1)
             /\ CtxState' = IF Top = "Ctx1" THEN destroyContext(1)
                            ELSE IF Top = "Ctx2" THEN destroyContext(2)
                            ELSE CtxState
             /\ ModState' = IF Top \in ModuleIds THEN destroyModule(Top)
                            ELSE ModState
             /\ Session' = IF Top = "Session" THEN EmptySession ELSE Session
             /\ UNCHANGED spc
  /\ UNCHANGED <<Flow, Fate, ModCtx, SessionContexts, SessionModules,
                 Dropped, Config, Calls, Passes, Error>>
  /\ UNCHANGED <<classifierVars, interpVars, differVars, parserVars,
                 collectorVars, alignVars,
               scanVars>>

\* ~AnalysisSession: the members are destroyed, the last declared first
DropSession ==
  /\ spc \in {"held", "dropping"}
  /\ Dropped < Len(SessionMembers)
  /\ LET Member == SessionMembers[Len(SessionMembers) - Dropped]
     IN /\ CtxState' = IF Member = "Contexts"
                       THEN [C \in ContextIds |->
                               IF \E I \in 1..Len(SessionContexts) :
                                    SessionContexts[I] = C
                               THEN "destroyed" ELSE CtxState[C]]
                       ELSE CtxState
        /\ ModState' = IF Member = "BeforeModule" /\ "before" \in SessionModules
                       THEN destroyModule("before")
                       ELSE IF Member = "AfterModule"
                               /\ "after" \in SessionModules
                       THEN destroyModule("after")
                       ELSE ModState
  /\ Dropped' = Dropped + 1
  /\ spc' = IF Dropped + 1 = Len(SessionMembers) THEN "dropped"
            ELSE "dropping"
  /\ UNCHANGED <<Flow, Fate, ModCtx, Locals, SessionContexts, SessionModules,
                 Config, Calls, Session, Passes, Error>>
  /\ UNCHANGED <<classifierVars, interpVars, differVars, parserVars,
                 collectorVars, alignVars,
               scanVars>>

\* nothing has run yet
FlowAtStart ==
  /\ spc = "start"
  /\ CtxState = [C \in ContextIds |-> "none"]
  /\ ModState = [M \in ModuleIds |-> "none"]
  /\ ModCtx = [M \in ModuleIds |-> 0]
  /\ Locals = <<>> /\ SessionContexts = <<>> /\ SessionModules = {}
  /\ Dropped = 0
  /\ Calls = <<>> /\ Session = EmptySession /\ Passes = <<>> /\ Error = ""
  /\ ClassifierAtRest /\ InterpAtRest /\ DifferAtRest /\ ParserAtRest
  /\ CollectorAtRest /\ AlignAtRest /\ ScanAtRest

\* every entry point that parses, under every combination of failures
InitSession ==
  /\ Flow \in Flows /\ Fate \in Fates /\ Config \in Configs
  /\ FlowAtStart
NextSession ==
  \/ CreateContexts
  \/ ParseBefore
  \/ ParseAfter
  \/ ReadRemarks
  \/ NullCheck
  \/ Verify
  \/ Clone
  \/ RunPipeline
  \/ FinishSession
  \/ PushContexts
  \/ Unwind
  \/ DropSession
SpecSession == InitSession /\ [][NextSession]_vars

\* the four run operations
InitRun ==
  /\ \/ Flow \in Flows /\ Fate \in Fates /\ Config \in Configs
     \/ Flow = "runFromModules" /\ Fate \in ModuleFates
          /\ Config = [PassPipeline |-> "", OptLevel |-> ""]
  /\ FlowAtStart
NextRun ==
  \/ PassModules
  \/ NextSession
SpecRun == InitRun /\ [][NextRun]_vars

\* the flow has returned a session that is not yet dropped
SessionReturned == spc = "held"

\* C19: in every session returned by runFromFile, runFromIR or
\* runFromBeforeAfter the before module and the after module belong to two
\* different contexts
C19_ModulesInDifferentContexts ==
  SessionReturned => ModCtx["before"] # ModCtx["after"]

\* C20: on every path of the three entry points no context is destroyed
\* while a module that lives in it is alive; a returned session owns every
\* context its modules live in, and a dropped session destroys both modules
\* before any of its contexts
C20_ContextsOutliveModules ==
  /\ \A M \in ModuleIds :
       ModState[M] = "alive" => CtxState[ModCtx[M]] = "alive"
  /\ SessionReturned =>
       \A M \in SessionModules :
          \E I \in 1..Len(SessionContexts) : SessionContexts[I] = ModCtx[M]
  /\ (spc \in {"dropping", "dropped"}
        /\ \E C \in ContextIds : CtxState[C] = "destroyed")
       => \A M \in SessionModules : ModState[M] = "destroyed"

\* a session of runFromBeforeAfter is being dropped: both modules are
\* destroyed and both contexts are still alive
C20_Witness ==
  /\ Flow = "runFromBeforeAfter" /\ spc = "dropping"
  /\ SessionModules = ModuleIds
  /\ \A M \in ModuleIds : ModState[M] = "destroyed"
  /\ \A C \in ContextIds : CtxState[C] = "alive"

\* X occurs in the sequence S
Occurs(S, X) == \E I \in 1..Len(S) : S[I] = X

\* the flow has failed and returns, or has returned, an error
RunFailed == spc \in {"unwind", "failed"}

\* the operation whose failure produces the error, "" for a null check
FailingCall(Err) ==
  IF Err = ParseError THEN "parseIR"
  ELSE IF Err = VerifyError THEN "verifyModule"
  ELSE IF Err = CloneError THEN "CloneModule"
  ELSE IF Err = RemarksError THEN "parseRemarksYAML"
  ELSE ""

\* C21: each run operation returns either an error or a fully assembled
\* session: a failure of IR parsing, module verification, the remarks file
\* or a null module stops the call at that failure, the error is returned,
\* no session exists and neither the differ nor the classifier has run; a
\* returned session has its texts, remarks, diff, diagnostics and both
\* modules
C21_ErrorOrWholeSession ==
  /\ Error # "" => RunFailed
  /\ RunFailed =>
       /\ Error # ""
       /\ ~Occurs(Calls, "diff") /\ ~Occurs(Calls, "analyze")
       /\ SessionModules = {} /\ SessionContexts = <<>>
       /\ FailingCall(Error) # "" =>
            Calls # <<>> /\ Calls[Len(Calls)] = FailingCall(Error)
  /\ spc = "failed" => Session = EmptySession
  /\ SessionReturned =>
       /\ Error = ""
       /\ Session.BeforeIR /\ Session.AfterIR /\ Session.Remarks
       /\ Session.Diff /\ Session.Diagnostics
       /\ SessionModules = ModuleIds
       /\ \A M \in ModuleIds : ModState[M] = "alive"
       /\ Occurs(Calls, "diff") /\ Occurs(Calls, "analyze")

\* runFromBeforeAfter has returned the error of the remarks file after both
\* modules were parsed
C21_Witness ==
  /\ spc = "failed" /\ Flow = "runFromBeforeAfter"
  /\ Error = RemarksError
  /\ Calls = <<"parseIR", "parseIR", "parseRemarksYAML">>
  /\ \A M \in ModuleIds : ModState[M] = "destroyed"

\* C22: in runFromFile and runFromIR the pipeline run on the after module
\* always contains instruction combination, control-flow simplification and
\* aggressive dead-code elimination, with a given pipeline description and
\* with the default
C22_PipelineHasThreePasses ==
  Occurs(Calls, "runPassPipeline") =>
    /\ Occurs(Passes, "instcombine")
    /\ Occurs(Passes, "simplifycfg")
    /\ Occurs(Passes, "adce")

\* C30: every returned session has VerificationFailed = false: a failed
\* verification, before the pipeline or after it with VerifyEachPass, ends
\* the run with an error and no session; the remark list of the collector
\* is read only after the pass pipeline has finished
C30_NoSessionAfterFailedVerification ==
  /\ SessionReturned => ~Session.VerificationFailed
  /\ Session.VerificationFailed => Error = VerifyError
  /\ Error = VerifyError =>
       RunFailed /\ SessionModules = {} /\ SessionContexts = <<>>
  /\ \A I \in 1..Len(Calls) :
       Calls[I] = "getRemarks" =>
         \E J \in 1..(I - 1) : Calls[J] = "runPassPipeline"

\* the verification after the pipeline has failed and the run has returned
\* the error
C30_Witness ==
  /\ spc = "failed" /\ Error = VerifyError
  /\ Fate.VerifyEachPass
  /\ Calls = <<"parseIR", "verifyModule", "CloneModule", "runPassPipeline",
               "verifyModule">>

\* the Missed remark of the loop vectorizer about a memory dependency
DependencyRemark ==
  Remark(Missed, "loop-vectorize", "", "loop_dependency",
         "unsafe dependent memory operations")

\* C23: for a Missed remark with pass "loop-vectorize", empty remark name
\* and message "unsafe dependent memory operations" the classifier yields
\* exactly one diagnostic: short reason "Loop vectorization blocked: memory
\* dependency / aliasing", severity Critical, estimated speedup 4.0, at
\* least three suggestions, the first of which describes __restrict__
C23_DependencyDiagnostic ==
  (analyzeDone /\ Remarks = <<DependencyRemark>>) =>
    /\ Len(Results) = 1
    /\ Results[1].ShortReason =
         "Loop vectorization blocked: memory dependency / aliasing"
    /\ Results[1].Severity = Critical
    /\ Results[1].EstimatedSpeedup = 400
    /\ Results[1].NumSuggestions >= 3
    /\ find(Results[1].FirstSuggestion, "__restrict__", 0) # NPOS

\* analyze has run on the dependency remark alone
C23_Witness ==
  /\ analyzeDone /\ Remarks = <<DependencyRemark>>
  /\ Len(Results) = 1
  /\ Results[1].FunctionName = "loop_dependency"

\* ---------------------------------------------------------------------
\* alignSequences, the reconstruction loop step by step
\* ---------------------------------------------------------------------

\* the longest sequence handed to alignSequences
MaxLen == 3

\* the strings of the sequences
AlignStrings == {"x", "y", "z"}

AlignSequencesPool == UNION {[1..N -> AlignStrings] : N \in 0..MaxLen}

\* the branch one iteration of the reconstruction loop takes
stepTaken(A, B, DP, I, J) ==
  IF I > 0 /\ J > 0 /\ A[I] = B[J] THEN "diagonal"
  ELSE IF J > 0 /\ (I = 0 \/ leftNotWorse(DP, Len(B), I, J)) THEN "left"
  ELSE "up"

\* the DP table is created and filled; I and J start at the sizes
FillTable ==
  /\ apc = "fill"
  /\ DPTable' = fillDP(SeqA, SeqB,
                       [K \in 1..((Len(SeqA) + 1) * (Len(SeqB) + 1)) |-> 0],
                       1, 1)
  /\ PosI' = Len(SeqA) /\ PosJ' = Len(SeqB)
  /\ apc' = "walk"
  /\ UNCHANGED <<SeqA, SeqB, Aligned>>
  /\ UNCHANGED <<classifierVars, interpVars, differVars, parserVars,
                 collectorVars, sessionVars, scanVars>>

\* one iteration of while (I > 0 || J > 0)
ReconstructStep ==
  /\ apc = "walk"
  /\ PosI > 0 \/ PosJ > 0
  /\ LET Step == stepTaken(SeqA, SeqB, DPTable, PosI, PosJ)
     IN /\ Aligned' =
             Append(Aligned,
                    IF Step = "diagonal" THEN <<PosI - 1, PosJ - 1>>
                    ELSE IF Step = "left" THEN <<-1, PosJ - 1>>
                    ELSE <<PosI - 1, -1>>)
        /\ PosI' = IF Step = "left" THEN PosI ELSE PosI - 1
        /\ PosJ' = IF Step = "up" THEN PosJ ELSE PosJ - 1
  /\ UNCHANGED <<SeqA, SeqB, DPTable, apc>>
  /\ UNCHANGED <<classifierVars, interpVars, differVars, parserVars,
                 collectorVars, sessionVars, scanVars>>

\* the loop has ended: std::reverse and return
ReverseAlignment ==
  /\ apc = "walk"
  /\ ~(PosI > 0 \/ PosJ > 0)
  /\ Aligned' = reverse(Aligned)
  /\ apc' = "done"
  /\ UNCHANGED <<SeqA, SeqB, DPTable, PosI, PosJ>>
  /\ UNCHANGED <<classifierVars, interpVars, differVars, parserVars,
                 collectorVars, sessionVars, scanVars>>

\* every pair of sequences of up to MaxLen strings
InitAlign ==
  /\ SeqA \in AlignSequencesPool /\ SeqB \in AlignSequencesPool
  /\ DPTable = <<>> /\ PosI = 0 /\ PosJ = 0 /\ Aligned = <<>>
  /\ apc = "fill"
  /\ ClassifierAtRest /\ InterpAtRest /\ DifferAtRest /\ ParserAtRest
  /\ CollectorAtRest /\ SessionAtRest /\ ScanAtRest
NextAlign ==
  \/ FillTable
  \/ ReconstructStep
  \/ ReverseAlignment
SpecAlign == InitAlign /\ [][NextAlign]_vars

\* the DP cell (I, J)
Cell(I, J) == getDP(DPTable, Len(SeqB), I, J)

\* the loop is at a position where the current elements differ and the
\* upper and the left neighbour hold the same score
AtTie ==
  /\ apc = "walk" /\ PosI > 0 /\ PosJ > 0
  /\ SeqA[PosI] # SeqB[PosJ]
  /\ Cell(PosI - 1, PosJ) = Cell(PosI, PosJ - 1)

\* the current elements are equal
AtMatch ==
  /\ apc = "walk" /\ PosI > 0 /\ PosJ > 0
  /\ SeqA[PosI] = SeqB[PosJ]

\* C24: in the reconstruction, when the current elements differ and the
\* two neighbouring cells hold the same score the loop steps up (consumes
\* the element of the first sequence) rather than left; when the elements
\* are equal it takes the diagonal
C24_UpBeforeLeft ==
  [][ /\ AtTie => (PosI' = PosI - 1 /\ PosJ' = PosJ)
      /\ AtMatch => (PosI' = PosI - 1 /\ PosJ' = PosJ - 1) ]_vars

\* alignSequences has returned
AlignDone == apc = "done"

\* the positions of the alignment that hold a pair of two indices
PairedPositions ==
  {K \in 1..Len(Aligned) : Aligned[K][1] # -1 /\ Aligned[K][2] # -1}

\* the indices of side S (1 or 2) in the order of the alignment
IndicesOf(S) ==
  LET Present == SelectSeq(Aligned, LAMBDA E : E[S] # -1)
  IN [K \in 1..Len(Present) |-> Present[K][S]]

\* C25: the alignment holds every index of A once and every index of B
\* once, each side in strictly increasing order, pairs two indices only
\* when their strings are equal, and has length |A| + |B| minus the number
\* of pairs
C25_AlignmentCoversBothSequences ==
  AlignDone =>
    /\ IndicesOf(1) = [K \in 1..Len(SeqA) |-> K - 1]
    /\ IndicesOf(2) = [K \in 1..Len(SeqB) |-> K - 1]
    /\ \A K \in 1..Len(Aligned) : Aligned[K][1] # -1 \/ Aligned[K][2] # -1
    /\ \A K \in PairedPositions :
         SeqA[Aligned[K][1] + 1] = SeqB[Aligned[K][2] + 1]
    /\ Len(Aligned) = Len(SeqA) + Len(SeqB) - Cardinality(PairedPositions)

\* two sequences of three strings with a pair, an addition and a removal
C25_Witness ==
  /\ AlignDone /\ Len(SeqA) = 3 /\ Len(SeqB) = 3
  /\ Cardinality(PairedPositions) = 2
  /\ \E K \in 1..Len(Aligned) : Aligned[K][1] = -1
  /\ \E K \in 1..Len(Aligned) : Aligned[K][2] = -1

RECURSIVE LongestCommon(_, _)
\* the length of a longest common subsequence of A and B
LongestCommon(A, B) ==
  IF A = <<>> \/ B = <<>> THEN 0
  ELSE IF Head(A) = Head(B) THEN 1 + LongestCommon(Tail(A), Tail(B))
  ELSE max(LongestCommon(Tail(A), B), LongestCommon(A, Tail(B)))

\* C26: the number of paired entries of the alignment equals the length of
\* a longest common subsequence of A and B, which is the value of the last
\* DP cell
C26_PairsAreLongestCommonSubsequence ==
  AlignDone =>
    /\ Cardinality(PairedPositions) = LongestCommon(SeqA, SeqB)
    /\ Cell(Len(SeqA), Len(SeqB)) = LongestCommon(SeqA, SeqB)

\* sequences whose equal last elements are paired although a longest
\* common subsequence of the same length exists without that pair
C26_Witness ==
  /\ AlignDone
  /\ SeqA = <<"x", "y", "x">> /\ SeqB = <<"y", "x">>
  /\ Cardinality(PairedPositions) = 2

(***************************************************************************)
(* diff on two definitions of one function                                 *)
(***************************************************************************)

\* the largest number of blocks of a definition
MaxBlocks == 2

\* instruction lists of the blocks of a definition
DefinitionBodies ==
  {<<InstrRet>>, <<InstrAdd, InstrRet>>, <<InstrCall, InstrAdd, InstrRet>>}

\* blocks of a definition, with the name entry or without a name
DefinitionBlocks == [Name : {"entry", ""}, Instrs : DefinitionBodies]

\* block lists of a definition: the symbol table of a function keeps the
\* names of its named blocks distinct
DefinitionBlockLists ==
  { Bs \in UNION {[1..N -> DefinitionBlocks] : N \in 1..MaxBlocks} :
      \A I, J \in DOMAIN Bs :
        (I # J /\ Bs[I].Name = Bs[J].Name) => Bs[I].Name = "" }

\* modules whose only function f is a definition
DefinitionModules ==
  {<<Function("f", "void ()", "", Bs)>> : Bs \in DefinitionBlockLists}

InitFunctions ==
  /\ Before \in DefinitionModules /\ After \in DefinitionModules
  /\ MD = EmptyModuleDiff /\ diffDone = FALSE
  /\ ClassifierAtRest /\ InterpAtRest /\ ParserAtRest /\ CollectorAtRest
  /\ SessionAtRest /\ AlignAtRest /\ ScanAtRest
NextFunctions == DoDiff
SpecFunctions == InitFunctions /\ [][NextFunctions]_vars

\* the number of entries of a diff list whose kind is in Kinds
CountKinds(Entries, Kinds) ==
  Cardinality({K \in 1..Len(Entries) : Entries[K].Kind \in Kinds})

\* the block diff was built by diffBlocks from an aligned pair of blocks
FromAlignedPair(BD) == BD.Kind \in {Unchanged, Modified}

\* both functions of the FunctionDiff are definitions
OfTwoDefinitions(FD) ==
  /\ FD.Kind \in {Unchanged, Modified}
  /\ FD.BeforeBlockCount > 0 /\ FD.AfterBlockCount > 0

\* C27: in every BlockDiff built from an aligned pair of blocks the entries
\* of kind Unchanged or Removed number BeforeInstrCount and those of kind
\* Unchanged or Added number AfterInstrCount; in every FunctionDiff of two
\* definitions the block diffs' BeforeInstrCount sum to the function's
\* BeforeInstrCount and likewise for AfterInstrCount
C27_CountsMatchEntries ==
  diffDone =>
    \A F \in 1..Len(MD.Functions) :
      LET FD == MD.Functions[F]
      IN /\ \A B \in 1..Len(FD.Blocks) :
              LET BD == FD.Blocks[B]
              IN FromAlignedPair(BD) =>
                   /\ CountKinds(BD.Instructions, {Unchanged, Removed})
                        = BD.BeforeInstrCount
                   /\ CountKinds(BD.Instructions, {Unchanged, Added})
                        = BD.AfterInstrCount
         /\ OfTwoDefinitions(FD) =>
              /\ SumOver(FD.Blocks, "BeforeInstrCount") = FD.BeforeInstrCount
              /\ SumOver(FD.Blocks, "AfterInstrCount") = FD.AfterInstrCount

\* a definition of two blocks against one of two blocks: one pair of blocks
\* is aligned and has an added and an unchanged instruction, one block is
\* removed and one is added
C27_Witness ==
  /\ diffDone /\ Len(MD.Functions) = 1
  /\ OfTwoDefinitions(MD.Functions[1])
  /\ Len(MD.Functions[1].Blocks) = 3
  /\ \E B \in 1..3 :
       LET BD == MD.Functions[1].Blocks[B]
       IN /\ BD.Kind = Modified
          /\ CountKinds(BD.Instructions, {Added}) > 0
          /\ CountKinds(BD.Instructions, {Unchanged}) > 0
  /\ \E B \in 1..3 : MD.Functions[1].Blocks[B].Kind = Removed
  /\ \E B \in 1..3 : MD.Functions[1].Blocks[B].Kind = Added

\* C28: ModifiedFunctions, UnchangedFunctions, AddedFunctions and
\* RemovedFunctions are the numbers of entries of Functions of kind
\* Modified, Unchanged, Added and Removed, declarations included
C28_CountersMatchKinds ==
  diffDone =>
    /\ MD.ModifiedFunctions = CountKinds(MD.Functions, {Modified})
    /\ MD.UnchangedFunctions = CountKinds(MD.Functions, {Unchanged})
    /\ MD.AddedFunctions = CountKinds(MD.Functions, {Added})
    /\ MD.RemovedFunctions = CountKinds(MD.Functions, {Removed})

(***************************************************************************)
(* parseRemarksYAML, one loop iteration per step, on any file content      *)
(***************************************************************************)

\* the most pieces a file content is put together from
MaxChunks == 4

\* pieces of file contents: a bare record separator, a line break, the
\* first line of a record of a known and of an unknown tag, the Args key
\* and an Args item
Chunks ==
  {"---", "\n", "--- !Missed\n", "--- !Failure\n", "Args:\n",
   "- String: 'x'\n"}

\* file contents of up to MaxChunks pieces, well formed or not
Contents ==
  {Concat(Pieces) : Pieces \in UNION {[1..N -> Chunks] : N \in 0..MaxChunks}}

\* `while (Pos < Content.size())` has ended, or `break` was taken
scanEnds ==
  \/ ~(ScanPos < Len(FileContent))
  \/ find(FileContent, "---", ScanPos) = NPOS

\* the vector Remarks after `if (!R.PassName.empty()) Remarks.push_back(R)`
pushed(Rm) == IF keepsRemark(Rm) THEN Append(Scanned, Rm) ELSE Scanned

\* the record loop has ended: return Remarks
ScanReturn ==
  /\ ypc = "records" /\ scanEnds
  /\ Parsed' = Scanned /\ parseDone' = TRUE
  /\ ypc' = "done"
  /\ UNCHANGED <<Records, FileContent, ScanPos, CurRecord, ArgsSearch,
                 ScanMsg, Scanned, classifierVars, interpVars, differVars,
                 collectorVars, sessionVars, alignVars>>

\* one iteration of the record loop, up to the Args line loop: the record
\* is cut out, Pos moves to its end, a record of an unknown tag is skipped,
\* a record without "Args:" is completed
ScanRecord ==
  /\ ypc = "records" /\ ~scanEnds
  /\ LET RecordStart == find(FileContent, "---", ScanPos)
         RecordEnd == recordEnd(FileContent, RecordStart)
         Record == slice(FileContent, RecordStart, RecordEnd)
         ArgsPos == find(Record, "Args:", 0)
     IN /\ ScanPos' = RecordEnd
        /\ CurRecord' = Record
        /\ ScanMsg' = ""
        /\ IF recordKind(Record) = ""
           THEN /\ ypc' = "records"
                /\ UNCHANGED <<ArgsSearch, Scanned>>
           ELSE IF ArgsPos # NPOS
           THEN /\ ArgsSearch' = ArgsPos + 5
                /\ ypc' = "args"
                /\ UNCHANGED Scanned
           ELSE /\ Scanned' = pushed(recordRemark(Record))
                /\ ypc' = "records"
                /\ UNCHANGED ArgsSearch
  /\ UNCHANGED <<Records, FileContent, Parsed, parseDone, classifierVars,
                 interpVars, differVars, collectorVars, sessionVars,
                 alignVars>>

\* `while (SearchStart < Record.size())` has ended, or `break` was taken
argsEnd ==
  \/ ~(ArgsSearch < Len(CurRecord))
  \/ LET Line == slice(CurRecord, ArgsSearch,
                       lineEndFrom(CurRecord, ArgsSearch))
     IN /\ ~starts_with(trim(Line), "-") /\ trim(Line) # ""
        /\ ArgsSearch > find(CurRecord, "Args:", 0) + 6

\* one iteration of the Args line loop
ArgsLine ==
  /\ ypc = "args" /\ ~argsEnd
  /\ LET LineEnd == lineEndFrom(CurRecord, ArgsSearch)
         Line == slice(CurRecord, ArgsSearch, LineEnd)
         ValPos == find(Line, ": ", 0)
     IN /\ ScanMsg' = IF ValPos = NPOS THEN ScanMsg
                      ELSE IF needsSpace(ScanMsg, pieceOf(Line, ValPos))
                      THEN ScanMsg \o " " \o pieceOf(Line, ValPos)
                      ELSE ScanMsg \o pieceOf(Line, ValPos)
        /\ ArgsSearch' = LineEnd + 1
  /\ UNCHANGED <<Records, FileContent, Parsed, parseDone, ScanPos, CurRecord,
                 Scanned, ypc, classifierVars, interpVars, differVars,
                 collectorVars, sessionVars, alignVars>>

\* the Args line loop has ended: `R.Message = FullMsg`, the rest of the
\* record, and the push
ArgsReturn ==
  /\ ypc = "args" /\ argsEnd
  /\ Scanned' = pushed([ Kind |-> recordKind(CurRecord),
                          PassName |-> extractField(CurRecord, "Pass:"),
                          RemarkName |-> extractField(CurRecord, "Name:"),
                          FunctionName |-> extractField(CurRecord, "Function:"),
                          Loc |-> recordLocation(CurRecord),
                          Message |-> ScanMsg,
                          Args |-> <<>> ])
  /\ ypc' = "records"
  /\ UNCHANGED <<Records, FileContent, Parsed, parseDone, ScanPos, CurRecord,
                 ArgsSearch, ScanMsg, classifierVars, interpVars, differVars,
                 collectorVars, sessionVars, alignVars>>

\* every file content of up to MaxChunks pieces
InitScan ==
  /\ Records = <<>> /\ FileContent \in Contents
  /\ Parsed = <<>> /\ parseDone = FALSE
  /\ ScanPos = 0 /\ CurRecord = "" /\ ArgsSearch = 0 /\ ScanMsg = ""
  /\ Scanned = <<>> /\ ypc = "records"
  /\ ClassifierAtRest /\ InterpAtRest /\ DifferAtRest /\ CollectorAtRest
  /\ SessionAtRest /\ AlignAtRest
NextScan == ScanReturn \/ ScanRecord \/ ArgsLine \/ ArgsReturn
SpecScan == InitScan /\ [][NextScan]_vars

\* an iteration of the record loop is taken
RecordIteration == ypc = "records" /\ ~scanEnds

\* an iteration of the Args line loop is taken
ArgsIteration == ypc = "args" /\ ~argsEnd

\* C29: parseRemarksYAML terminates on every file content: each iteration
\* of the record loop moves Pos strictly forward, to a record end that lies
\* after the record start and not after the end of the content, also for a
\* skipped record; each iteration of the Args line loop moves SearchStart
\* strictly forward and not further than one past the end of the record
C29_ParserTerminates ==
  [][ /\ RecordIteration =>
           /\ ScanPos' > find(FileContent, "---", ScanPos)
           /\ ScanPos' > ScanPos
           /\ ScanPos' <= Len(FileContent)
      /\ ArgsIteration =>
           /\ ArgsSearch' > ArgsSearch
           /\ ArgsSearch' <= Len(CurRecord) + 1 ]_vars

\* a file whose first record has an unknown tag and was skipped and whose
\* second record went through the Args line loop
C29_Witness ==
  /\ ypc = "done"
  /\ starts_with(FileContent, "--- !Failure\n--- !Missed")
  /\ ScanMsg = "x"
====
